---- MODULE Spec2Model ----
(***************************************************************************)
(* Model of the 432 Hz batch converter (src/main.py): the metadata probe,   *)
(* the two-tier conversion, the batch worker thread and the Tk side that    *)
(* starts it, polls it and runs the callbacks the worker schedules.         *)
(***************************************************************************)
EXTENDS Integers, Sequences, FiniteSets, TLC

\* At most this many audio files are found in the source folder.
MaxFiles == 2

\* Dropped texts have at most this many characters.
MaxDropLen == 4

\* ttk.Progressbar's maximum before any batch has configured it.
DefaultBarMaximum == 100

\* _clean_ffmpeg_err keeps the last 15 meaningful lines.
KeepLines == 15

\* The fixed resampling target handed to convert_to_432.
target_sample_rate == 48000

---------------------------------------------------------------------------
(* Optional values: Python's None and a present integer. *)

None == [none |-> TRUE, v |-> 0]

Some(n) == [none |-> FALSE, v |-> n]

---------------------------------------------------------------------------
(* Source files and destination names. *)

\* A file at <folder>/<dir>/<stem><ext> whose first audio stream has the
\* given sample rate and bit rate (bit_rate -1: the stream carries none).
Source(dir, stem, ext, sr, br) ==
    [dir |-> dir, stem |-> stem, ext |-> ext, sample_rate |-> sr, bit_rate |-> br,
     file |-> TRUE]

\* A directory at <folder>/<dir>/<stem><ext>.
Directory(dir, stem, ext) == [Source(dir, stem, ext, 0, -1) EXCEPT !.file = FALSE]

\* The files of the batches: two of them share a destination.
BatchSources ==
    << Source("", "a", ".mp3", 44100, 128000),
       Source("", "a", ".WMA", 44100, 128000),
       Source("", "b", ".flac", 44100, 128000) >>

\* Files of every supported suffix, with bit rates below, at and above the
\* nominal bit rates of the codec tables, and one unsupported file.
FormatSources ==
    << Source("sub", "track", ".wma", 44100, 128000),
       Source("", "c", ".mp3", 48000, 128500),
       Source("", "d", ".MP3", 44100, 320000),
       Source("", "e", ".m4a", 96000, 600000),
       Source("", "f", ".aac", 44100, 300000),
       Source("", "g", ".AAC", 48000, -1),
       Source("", "h", ".flac", 96000, 900000),
       Source("", "i", ".wav", 44100, 128000),
       Source("sub", "j", ".FLAC", 44100, -1),
       Source("", "k", ".ogg", 48000, 96000),
       Source("", "l", ".opus", 48000, 0),
       Source("", "m", ".txt", 44100, 128000),
       Source("sub", "n", ".Wma", 44100, 128000),
       Source("sub/deep", "p", ".OGG", 44100, 128000),
       Directory("", "o", ".mp3") >>

\* The files a source folder may hold, in enumeration order.
AllSources == BatchSources \o FormatSources

BatchSet == { BatchSources[i] : i \in 1..Len(BatchSources) }

FormatSet == { FormatSources[i] : i \in 1..Len(FormatSources) }

SourceSet == BatchSet \cup FormatSet

SUPPORTED_EXTS == {".wav", ".flac", ".mp3", ".m4a", ".aac", ".ogg", ".opus", ".wma"}

\* str.lower() on the extensions that occur.
Lower(ext) ==
    CASE ext = ".WMA" -> ".wma"
      [] ext = ".Wma" -> ".wma"
      [] ext = ".MP3" -> ".mp3"
      [] ext = ".FLAC" -> ".flac"
      [] ext = ".AAC" -> ".aac"
      [] ext = ".M4A" -> ".m4a"
      [] ext = ".WAV" -> ".wav"
      [] ext = ".OGG" -> ".ogg"
      [] ext = ".OPUS" -> ".opus"
      [] OTHER -> ext

\* Line 302 comparing the suffix as it is written.
find_audio_files_as_given(dir, recursive) ==
    SelectSeq(AllSources,
              LAMBDA p : /\ p \in dir
                         /\ recursive \/ p.dir = ""
                         /\ p.ext \in SUPPORTED_EXTS
                         /\ p.file)

\* find_audio_files: the supported files of the folder, in enumeration
\* order; those below the top level only with the recursive pattern.
find_audio_files(dir, recursive) ==
    SelectSeq(AllSources,
              LAMBDA p : /\ p \in dir
                         /\ recursive \/ p.dir = ""
                         /\ Lower(p.ext) \in SUPPORTED_EXTS
                         /\ p.file)

\* Line 684 without the lower().
ExtOutAsGiven(ext) == IF ext = ".wma" THEN ".mp3" ELSE ext

\* ext_out: .wma sources are written as .mp3, every other suffix is kept.
ExtOut(ext) == IF Lower(ext) = ".wma" THEN ".mp3" ELSE ext

\* f_path.name
SrcName(p) == <<p.stem, p.ext>>

\* f_path: the source's relative directory and its name.
SrcPath(p) == <<p.dir>> \o SrcName(p)

\* dst_file.name: f"{f_path.stem}_432{ext_out}".
DstName(p) == <<p.stem, "_432", ExtOut(p.ext)>>

\* dst_file: the destination base, the source's relative directory, the name.
DstPath(p) == <<p.dir>> \o DstName(p)

DstSet == { DstPath(p) : p \in SourceSet }

\* Whether a destination's content has non-zero size.
NonZero(content) == content \in {"partial", "complete"}

\* Line 703 without the size test.
ShouldSkipAlways(keepOn, content) == keepOn /\ content # "missing"

\* Line 703 with the option read the wrong way round.
ShouldSkipInverted(keepOn, content) == ~keepOn /\ content # "missing" /\ NonZero(content)

\* Line 703: skip when skip-existing is on and the destination exists with a
\* size above zero.
ShouldSkip(keepOn, content) == keepOn /\ content # "missing" /\ NonZero(content)

---------------------------------------------------------------------------
(* External processes: _popen_run and what a run of a tool can produce. *)

\* errno of the FileNotFoundError raised when the executable is missing.
ENOENT == 2

\* PopenResult.
PopenResult(rc, out, err) == [returncode |-> rc, stdout |-> out, stderr |-> err]

\* A JSON document as json.loads delivers it: its shape ("dict", "null",
\* "list", "number"; "malformed" when it does not parse, "none" when the
\* stream holds no document), whether it has a "streams" key, and the list
\* under that key.
Doc(shape, has, streams) == [shape |-> shape, has_streams |-> has, streams |-> streams]

NoDoc == Doc("none", FALSE, <<>>)

\* A text stream that was not captured (None).
NoStream == [captured |-> FALSE, lines |-> <<>>, json |-> NoDoc]

\* Captured diagnostic text, as its lines.
Text(ls) == [captured |-> TRUE, lines |-> ls, json |-> NoDoc]

\* Captured standard output holding a JSON document.
Json(doc) == [captured |-> TRUE, lines |-> <<>>, json |-> doc]

\* subprocess.Popen without the handlers of lines 235-245: a launch failure
\* is raised to the caller.
popen_run_raising(run) ==
    [raised |-> run.launch # "ok",
     result |-> PopenResult(run.returncode, run.stdout, run.stderr)]

\* _popen_run (check is False at every call site): a launch failure becomes
\* a result with a non-zero status and a one-line diagnostic.
popen_run(run) ==
    CASE run.launch = "FileNotFoundError" ->
           [raised |-> FALSE,
            result |-> PopenResult(ENOENT, Text(<<>>), Text(<<"Executable not found">>))]
      [] run.launch = "OSError" ->
           [raised |-> FALSE,
            result |-> PopenResult(1, Text(<<>>), Text(<<"OSError">>))]
      [] OTHER ->
           [raised |-> FALSE,
            result |-> PopenResult(run.returncode, run.stdout, run.stderr)]

---------------------------------------------------------------------------
(* _clean_ffmpeg_err *)

\* Sample lines that _FFMPEG_IGNORE_LINES matches.
IgnoredSamples ==
    { "ffmpeg version 6.0", "built with gcc 12", "configuration: --enable-gpl",
      "libavutil 58.2.100 / 58.2.100", "  --enable-gpl", "Incorrect BOM value",
      "Error reading comment frame, skipped" }

IgnoreLine(ln) == ln \in IgnoredSamples

Placeholder == <<"(no ffmpeg stderr captured)">>

\* meaningful_lines[:15]
FirstN(ls, n) == IF Len(ls) <= n THEN ls ELSE SubSeq(ls, 1, n)

\* Line 269: meaningful_lines[-15:]
LastN(ls, n) == IF Len(ls) <= n THEN ls ELSE SubSeq(ls, Len(ls) - n + 1, Len(ls))

clean_ffmpeg_err(raw) ==
    LET meaningful_lines == SelectSeq(raw, LAMBDA ln : ~IgnoreLine(ln))
    IN  IF meaningful_lines # <<>> THEN LastN(meaningful_lines, KeepLines)
        ELSE Placeholder

\* Lines 432 and 448: the cleaned text of a failed attempt.
StderrCleaned(stream) ==
    IF stream.captured THEN clean_ffmpeg_err(stream.lines) ELSE Placeholder

---------------------------------------------------------------------------
(* _get_audio_metadata *)

\* A JSON field of the first stream, as json.loads delivers it.
FAbsent == [t |-> "absent", n |-> 0]
FEmpty == [t |-> "empty", n |-> 0]
FDigits(n) == [t |-> "digits", n |-> n]
FText == [t |-> "text", n |-> 0]
FNumber(n) == [t |-> "number", n |-> n]
FOddDigits == [t |-> "oddDigits", n |-> 0]

\* `if s and s.isdigit(): int(s)`: the value, or the exception raised.
ParseRate(f) ==
    CASE f.t = "digits" -> [exc |-> "none", val |-> Some(f.n)]
      [] f.t = "oddDigits" -> [exc |-> "ValueError", val |-> None]
      [] f.t = "number" /\ f.n # 0 -> [exc |-> "AttributeError", val |-> None]
      [] OTHER -> [exc |-> "none", val |-> None]

\* Lines 316-350 without the test of the status at line 318.
ProbeBodyIgnoringStatus(pr) ==
    LET done(e, sr, br) == [exc |-> e, sample_rate |-> sr, bit_rate |-> br]
        p == pr.result
        doc == p.stdout.json
    IN  IF pr.raised THEN done("OSError", None, None)
        ELSE IF doc.shape # "dict" \/ ~doc.has_streams \/ doc.streams = <<>>
             THEN done("none", None, None)
        ELSE IF doc.streams[1].shape # "dict" THEN done("AttributeError", None, None)
        ELSE IF doc.streams[1].sample_rate.t # "digits" THEN done("none", None, None)
        ELSE done("none", Some(doc.streams[1].sample_rate.n), None)

\* Lines 316-350: the try block, with the exception that ends it (if any).
ProbeBody(pr) ==
    LET done(e, sr, br) == [exc |-> e, sample_rate |-> sr, bit_rate |-> br]
        p == pr.result
    IN  IF pr.raised THEN done("OSError", None, None)
        ELSE IF p.returncode # 0 THEN done("none", None, None)
        ELSE IF ~p.stdout.captured THEN done("none", None, None)
        ELSE IF p.stdout.json.shape \in {"malformed", "none"}
             THEN done("JSONDecodeError", None, None)
        ELSE LET doc == p.stdout.json IN
             IF doc.shape = "number" THEN done("TypeError", None, None)
        ELSE IF doc.shape # "dict" \/ ~doc.has_streams THEN done("none", None, None)
        ELSE IF doc.streams = <<>> THEN done("none", None, None)
        ELSE LET stream == doc.streams[1] IN
             IF stream.shape # "dict" THEN done("AttributeError", None, None)
        ELSE LET sr == ParseRate(stream.sample_rate) IN
             IF sr.exc # "none" THEN done(sr.exc, None, None)
        ELSE LET br == ParseRate(stream.bit_rate) IN
             IF br.exc # "none" THEN done(br.exc, sr.val, None)
        ELSE done("none", sr.val, br.val)

\* The except clauses of lines 352-363 without the final `except Exception`.
CaughtNamedOnly(exc) ==
    exc \in {"CalledProcessError", "JSONDecodeError", "ValueError"}

\* The except clauses of lines 352-363.
Caught(exc) ==
    \/ exc \in {"CalledProcessError", "JSONDecodeError", "ValueError"}
    \/ exc \in {"AttributeError", "TypeError", "OSError", "KeyError"}

get_audio_metadata(run) ==
    LET b == ProbeBody(popen_run(run))
    IN  [raised |-> b.exc # "none" /\ ~Caught(b.exc),
         sample_rate |-> b.sample_rate,
         bit_rate |-> b.bit_rate]

---------------------------------------------------------------------------
(* What the two external tools can do when they are run. *)

ProcRun(launch, rc, out, err, leaves) ==
    [launch |-> launch, returncode |-> rc, stdout |-> out, stderr |-> err,
     leaves |-> leaves]

Stream(sr, br) == [shape |-> "dict", sample_rate |-> sr, bit_rate |-> br]

InspectorOk(doc) == ProcRun("ok", 0, Json(doc), Text(<<>>), "untouched")

\* The bit_rate field of the stream of a source, as the inspector prints it.
BitRateField(src) == IF src.bit_rate < 0 THEN FAbsent ELSE FDigits(src.bit_rate)

\* Outcomes of one run of the inspector (ffprobe) on a source.
InspectorRuns(src) ==
    { ProcRun("FileNotFoundError", 0, NoStream, NoStream, "untouched"),
      ProcRun("OSError", 0, NoStream, NoStream, "untouched"),
      ProcRun("ok", 1, Json(NoDoc), Text(<<"Invalid data found">>), "untouched"),
      ProcRun("ok", 1, Json(Doc("dict", TRUE, <<Stream(FDigits(src.sample_rate), BitRateField(src))>>)),
              Text(<<"Invalid data found">>), "untouched"),
      ProcRun("ok", 0, NoStream, NoStream, "untouched"),
      InspectorOk(NoDoc),
      InspectorOk(Doc("malformed", FALSE, <<>>)),
      InspectorOk(Doc("null", FALSE, <<>>)),
      InspectorOk(Doc("number", FALSE, <<>>)),
      InspectorOk(Doc("list", FALSE, <<>>)),
      InspectorOk(Doc("dict", FALSE, <<>>)),
      InspectorOk(Doc("dict", TRUE, <<>>)),
      InspectorOk(Doc("dict", TRUE, <<[shape |-> "string", sample_rate |-> FAbsent,
                                       bit_rate |-> FAbsent]>>)),
      InspectorOk(Doc("dict", TRUE, <<Stream(FDigits(src.sample_rate), BitRateField(src))>>)),
      InspectorOk(Doc("dict", TRUE, <<Stream(FDigits(src.sample_rate), FAbsent)>>)),
      InspectorOk(Doc("dict", TRUE, <<Stream(FDigits(src.sample_rate), FText)>>)),
      InspectorOk(Doc("dict", TRUE, <<Stream(FDigits(src.sample_rate), FNumber(src.bit_rate))>>)),
      InspectorOk(Doc("dict", TRUE, <<Stream(FAbsent, BitRateField(src))>>)),
      InspectorOk(Doc("dict", TRUE, <<Stream(FText, BitRateField(src))>>)),
      InspectorOk(Doc("dict", TRUE, <<Stream(FEmpty, FAbsent)>>)),
      InspectorOk(Doc("dict", TRUE, <<Stream(FNumber(src.sample_rate), BitRateField(src))>>)),
      InspectorOk(Doc("dict", TRUE, <<Stream(FNumber(0), BitRateField(src))>>)),
      InspectorOk(Doc("dict", TRUE, <<Stream(FOddDigits, BitRateField(src))>>)) }

\* Outcomes of one run of the encoder (ffmpeg): its status, its diagnostic
\* text and what it leaves at the destination path.
\* A diagnostic text of a failed run with 17 lines that no ignore pattern
\* matches, between lines that one matches.
LongLog ==
    << "ffmpeg version 6.0", "built with gcc 12", "Input #0, ogg, from 'k.ogg':",
       "  Duration: 00:03:12.00", "Incorrect BOM value", "Stream mapping:",
       "  Stream #0:0 -> #0:0", "Press [q] to stop", "[libvorbis] frame 1",
       "[libvorbis] frame 2", "  --enable-gpl", "[libvorbis] frame 3",
       "[libvorbis] frame 4", "[libvorbis] frame 5", "[libvorbis] frame 6",
       "Error reading comment frame, skipped", "[libvorbis] frame 7",
       "[libvorbis] frame 8", "[libvorbis] frame 9", "Error while encoding",
       "Conversion failed!", "libavutil 58.2.100 / 58.2.100", "Exiting" >>

\* The source whose failed runs print the long text (one source, to keep
\* the number of runs small).
Verbose(src) == src.stem = "k"

EncoderRuns(src) ==
    (IF Verbose(src)
     THEN { ProcRun("ok", 1, Text(<<>>), Text(LongLog), "untouched") }
     ELSE {})
    \cup
    { ProcRun("ok", 0, Text(<<>>), Text(<<"ffmpeg version 6.0">>), "complete"),
      ProcRun("FileNotFoundError", 0, NoStream, NoStream, "untouched") }
    \cup { ProcRun("ok", 1, Text(<<>>),
                   Text(<<"ffmpeg version 6.0", "Conversion failed!">>), l) :
           l \in {"untouched", "empty", "partial"} }
    \cup { ProcRun("ok", 8, Text(<<>>),
                   Text(<<"ffmpeg version 6.0", "built with gcc 12">>), "untouched") }

\* The destination's content after a run of the encoder.
Leaves(run, content) == IF run.leaves = "untouched" THEN content ELSE run.leaves

---------------------------------------------------------------------------
(* The command line of the encoder: codec tables, bit rate, filter chain. *)

\* One argument of the command line: a word, or a bit rate written with the
\* suffix k ("320k") or as plain digits ("128500").
Tok(w) == [s |-> w, n |-> 0]

Kbps(n) == [s |-> "k", n |-> n]

RawBps(n) == [s |-> "digits", n |-> n]

HQ_CODEC ==
    [e \in {".mp3", ".m4a", ".aac", ".flac", ".wav", ".wma"} |->
       CASE e = ".mp3" -> <<Tok("-c:a"), Tok("libmp3lame"), Tok("-b:a"), Kbps(320),
                            Tok("-compression_level"), Tok("0")>>
         [] e = ".m4a" -> <<Tok("-c:a"), Tok("aac"), Tok("-b:a"), Kbps(512),
                            Tok("-movflags"), Tok("+faststart")>>
         [] e = ".aac" -> <<Tok("-c:a"), Tok("aac"), Tok("-b:a"), Kbps(512)>>
         [] e = ".flac" -> <<Tok("-c:a"), Tok("flac"), Tok("-compression_level"), Tok("8")>>
         [] e = ".wav" -> <<Tok("-c:a"), Tok("pcm_s24le")>>
         [] e = ".wma" -> <<Tok("-c:a"), Tok("wmapro"), Tok("-b:a"), Kbps(320)>>]

SAFE_CODEC ==
    [e \in {".mp3", ".m4a", ".aac", ".flac", ".wav", ".wma"} |->
       CASE e = ".mp3" -> <<Tok("-c:a"), Tok("libmp3lame"), Tok("-b:a"), Kbps(320)>>
         [] e = ".m4a" -> <<Tok("-c:a"), Tok("aac"), Tok("-b:a"), Kbps(256),
                            Tok("-movflags"), Tok("+faststart")>>
         [] e = ".aac" -> <<Tok("-c:a"), Tok("aac"), Tok("-b:a"), Kbps(256)>>
         [] e = ".flac" -> <<Tok("-c:a"), Tok("flac")>>
         [] e = ".wav" -> <<Tok("-c:a"), Tok("pcm_s16le")>>
         [] e = ".wma" -> <<Tok("-c:a"), Tok("wmav2"), Tok("-b:a"), Kbps(192)>>]

\* The two module-level dicts as they are now: _codec_for_ext returns the
\* list object a dict holds, not a copy of it.
VARIABLES
    hq_table,         \* the dict HQ_CODEC
    safe_table        \* the dict SAFE_CODEC

tableVars == << hq_table, safe_table >>

\* dict.get(ext, default)
Get(table, ext, default) == IF ext \in DOMAIN table THEN table[ext] ELSE default

\* _codec_for_ext without the lower() of line 292.
codec_for_ext_as_given(ext, safe) ==
    LET default_codec ==
            IF ext \in {".flac", ".wav"}
            THEN Get(safe_table, ext, <<Tok("-c:a"), Tok("copy")>>)
            ELSE <<Tok("-c:a"), Tok("aac"), Tok("-b:a"), Kbps(320)>>
    IN  Get(IF safe THEN safe_table ELSE hq_table, ext, default_codec)

\* _codec_for_ext
codec_for_ext(ext, safe) ==
    LET e == Lower(ext)
        default_codec ==
            IF e \in {".flac", ".wav"}
            THEN Get(safe_table, e, <<Tok("-c:a"), Tok("copy")>>)
            ELSE <<Tok("-c:a"), Tok("aac"), Tok("-b:a"), Kbps(320)>>
    IN  Get(IF safe THEN safe_table ELSE hq_table, e, default_codec)

\* list.index: the first position of a word, 0 for ValueError.
Index(options, w) ==
    IF \E k \in 1..Len(options) : options[k] = Tok(w)
    THEN CHOOSE k \in 1..Len(options) :
            /\ options[k] = Tok(w)
            /\ \A l \in 1..(k - 1) : options[l] # Tok(w)
    ELSE 0

\* Lines 389-394: the bit rate an argument stands for, -1 if it has none.
TargetBps(t) ==
    IF t.s = "k" THEN t.n * 1000
    ELSE IF t.s = "digits" THEN t.n
    ELSE -1

\* Line 396 with the comparison the wrong way round.
UseOriginalWhenHigher(orig_bps, target_bps) == target_bps # -1 /\ orig_bps > target_bps

\* Line 396: the source's bit rate is below the table's.
UseOriginal(orig_bps, target_bps) == target_bps # -1 /\ orig_bps < target_bps

\* Line 398: f"{orig_bps // 1000}k" if orig_bps % 1000 == 0 else str(orig_bps)
FormatBps(orig_bps) ==
    IF orig_bps % 1000 = 0 THEN Kbps(orig_bps \div 1000) ELSE RawBps(orig_bps)

\* convert_to_432._adjust_bitrate_in_options
adjust_bitrate_in_options(codec_options, orig_bps) ==
    IF orig_bps = None THEN codec_options
    ELSE LET b_a_idx == Index(codec_options, "-b:a")
         IN  IF b_a_idx = 0 \/ b_a_idx + 1 > Len(codec_options) THEN codec_options
             ELSE IF UseOriginal(orig_bps.v, TargetBps(codec_options[b_a_idx + 1]))
             THEN [codec_options EXCEPT ![b_a_idx + 1] = FormatBps(orig_bps.v)]
             ELSE codec_options

\* Line 385 adjusting the list it was given: the list is the dict's own.
TableAliased(table, ext, options) ==
    IF ext \in DOMAIN table THEN [table EXCEPT ![ext] = options] ELSE table

\* Line 385: `adjusted_options = list(codec_options)` adjusts a copy, and
\* lines 425 and 442 build new lists: the dict keeps its lists.
TableAfter(table, ext, options) == table

\* Lines 420 and 437: `ext not in [".flac", ".wav"]` is false.
Lossless(ext) == ext \in {".flac", ".wav"}

\* Lines 419-423 looking the HQ arguments up in the Safe table.
HQOptionsFromSafeTable(ext, orig_bps) ==
    IF Lossless(ext) THEN codec_for_ext(ext, TRUE)
    ELSE adjust_bitrate_in_options(codec_for_ext(ext, TRUE), orig_bps)

\* Lines 419-423: hq_options_final.
HQOptions(ext, orig_bps) ==
    IF Lossless(ext) THEN codec_for_ext(ext, FALSE)
    ELSE adjust_bitrate_in_options(codec_for_ext(ext, FALSE), orig_bps)

\* Lines 436-440: safe_options_final.
SafeOptions(ext, orig_bps) ==
    IF Lossless(ext) THEN codec_for_ext(ext, TRUE)
    ELSE adjust_bitrate_in_options(codec_for_ext(ext, TRUE), orig_bps)

\* One filter of the chain: its name and its argument base * num / den.
Filter(name, base, num, den) == [filter |-> name, base |-> base, num |-> num, den |-> den]

\* Line 375: f"asetrate={sr}*432/440,aresample={sr},atempo=440/432"
Chain(sr) ==
    << Filter("asetrate", sr, 432, 440),
       Filter("aresample", sr, 1, 1),
       Filter("atempo", 1, 440, 432) >>

\* A command line by its parts: the executable, whether -y is given, the
\* input path, the -map arguments, the argument of -c:v, the chain after
\* -af, the codec arguments and the destination.
Cmd(exe, y, input, maps, cv, chain, options, dst) ==
    [exe |-> exe, overwrite |-> y, input |-> input, maps |-> maps, video |-> cv,
     chain |-> chain, codec |-> options, dst |-> dst]

\* Lines 412-416: base_cmd_list (codec arguments and destination to come).
base_cmd_list(exe, src, chain) ==
    Cmd(exe, TRUE, src, <<"0:a?", "0:v?">>, "copy", chain, <<>>, <<>>)

\* Line 425: base_cmd_list + hq_options_final + [str(dst)]
hq_cmd_list(base, options, dst) == [base EXCEPT !.codec = options, !.dst = dst]

\* A Safe command line that maps the audio stream only.
safe_cmd_list_audio_only(base, options, dst) ==
    [base EXCEPT !.maps = <<"0:a?">>, !.video = "", !.codec = options, !.dst = dst]

\* Line 442: base_cmd_list + safe_options_final + [str(dst)]
safe_cmd_list(base, options, dst) == [base EXCEPT !.codec = options, !.dst = dst]

\* Lines 307-313: the inspector's command line has the executable and the
\* input path of these parts.
ProbeCmd(exe, src) == Cmd(exe, FALSE, src, <<>>, "", <<>>, <<>>, <<>>)

---------------------------------------------------------------------------
(* _resolve_ffmpeg: where the two executables are looked for. *)

\* What a location holds under the name of a tool: nothing, a file that is
\* not executable, or an executable file.
Holds == {"absent", "file", "exec"}

Pair(enc, insp) == [ffmpeg |-> enc, ffprobe |-> insp]

IsFile(h) == h \in {"file", "exec"}

\* A path to a tool: the location and the tool's name.  The location "name"
\* is the bare name the globals _FFMPEG and _FFPROBE start with.
ToolPath(loc, tool) == [loc |-> loc, tool |-> tool]

\* Lines 20-21.
DefaultFFMPEG == ToolPath("name", "ffmpeg")

DefaultFFPROBE == ToolPath("name", "ffprobe")

\* The command line and the installation: --test, whether Tkinter can be
\* imported, what --ffmpeg names (nothing, a path that does not exist, a
\* file or a directory) and what each location holds.
ToolEnv(test, tk, arg_kind, arg, path, script, sub_bin, sub_root) ==
    [test |-> test, tk |-> tk, arg_kind |-> arg_kind, arg |-> arg, path |-> path,
     script |-> script, sub_bin |-> sub_bin, sub_root |-> sub_root]

\* Lines 81-82, 121, 134 and 139 asking for the encoder alone.
BothFilesEncoderOnly(pair) == IsFile(pair.ffmpeg)

\* Lines 81-82, 121, 134 and 139: both executables exist as files.
BothFiles(pair) == IsFile(pair.ffmpeg) /\ IsFile(pair.ffprobe)

\* shutil.which taking every path for an executable.
WhichUnchecked(env, x) == [found |-> TRUE, path |-> x]

\* shutil.which: a bare name is searched on the PATH, a path is returned if
\* it names an executable file.
Which(env, x) ==
    IF x.loc = "name"
    THEN [found |-> env.path[x.tool] = "exec", path |-> ToolPath("path", x.tool)]
    ELSE [found |-> env[x.loc][x.tool] = "exec", path |-> x]

\* Lines 63-153: the tiers in order; the paths found, the tier they come
\* from and the tiers that were looked at.
Selection(env) ==
    LET none == [found |-> FALSE, loc |-> "name", source |-> "default", consulted |-> <<>>]
        arg == IF env.arg_kind = "none" THEN none
               ELSE [found |-> env.arg_kind \in {"file", "dir"} /\ BothFiles(env.arg),
                     loc |-> "arg",
                     source |-> IF env.arg_kind \in {"file", "dir"} /\ BothFiles(env.arg)
                                THEN "argument" ELSE "default",
                     consulted |-> <<"arg">>]
        path == IF arg.found THEN arg
                ELSE [found |-> env.path.ffmpeg = "exec" /\ env.path.ffprobe = "exec",
                      loc |-> "path",
                      source |-> IF env.path.ffmpeg = "exec" /\ env.path.ffprobe = "exec"
                                 THEN "System PATH" ELSE arg.source,
                      consulted |-> Append(arg.consulted, "path")]
        bundled == IF path.found THEN path
                   ELSE LET loc == IF BothFiles(env.script) THEN "script"
                                   ELSE IF BothFiles(env.sub_bin) THEN "sub_bin"
                                   ELSE IF BothFiles(env.sub_root) THEN "sub_root"
                                   ELSE "name"
                        IN  [found |-> loc # "name", loc |-> loc,
                             source |-> "bundled files",
                             consulted |-> Append(path.consulted, "bundled")]
    IN  bundled

\* _resolve_ffmpeg: the selection and the final verification of lines
\* 155-191.  failed names the tool whose verification called sys.exit(1).
resolve_ffmpeg(env, arg_given) ==
    LET sel == Selection(IF arg_given THEN env ELSE [env EXCEPT !.arg_kind = "none"])
        enc == IF sel.found THEN ToolPath(sel.loc, "ffmpeg") ELSE DefaultFFMPEG
        insp == IF sel.found THEN ToolPath(sel.loc, "ffprobe") ELSE DefaultFFPROBE
        w_enc == Which(env, enc)
        w_insp == Which(env, insp)
    IN  [ffmpeg |-> IF w_enc.found THEN w_enc.path ELSE enc,
         ffprobe |-> IF w_enc.found /\ w_insp.found THEN w_insp.path ELSE insp,
         source |-> sel.source,
         consulted |-> sel.consulted,
         failed |-> IF ~w_enc.found THEN "ffmpeg"
                    ELSE IF ~w_insp.found THEN "ffprobe" ELSE "none"]

\* Nothing has been resolved yet.
NoResolution ==
    [source |-> "default", consulted |-> <<>>, failed |-> "none", diagnostic |-> "none"]

---------------------------------------------------------------------------
(* _parse_drop_data: the text of a drop event, as a sequence of characters. *)

\* The characters of the dropped texts, and those str.strip() removes.
Alphabet == {" ", "\n", "{", "}", "a"}

Whitespace == {" ", "\n"}

DropTexts == UNION { [1..n -> Alphabet] : n \in 0..MaxDropLen }

\* The paths that exist: the source folder "a", a folder "a a" and a
\* file "aa".
ExistingDirs == { <<"a">>, <<"a", " ", "a">> }

ExistingFiles == { <<"a", "a">> }

\* Path(s).exists() and Path.is_dir()
Exists(path) == path \in ExistingDirs \cup ExistingFiles

IsDir(path) == path \in ExistingDirs

\* An Optional[Path].
NoPath == [none |-> TRUE, path |-> <<>>]

APath(path) == [none |-> FALSE, path |-> path]

RECURSIVE LStrip(_)
LStrip(t) == IF t # <<>> /\ Head(t) \in Whitespace THEN LStrip(Tail(t)) ELSE t

RECURSIVE RStrip(_)
RStrip(t) ==
    IF t # <<>> /\ t[Len(t)] \in Whitespace THEN RStrip(SubSeq(t, 1, Len(t) - 1)) ELSE t

\* str.strip()
Strip(t) == RStrip(LStrip(t))

\* Line 480 leaving the braces in place.
UnwrapNever(t) == t

\* Line 480: a text in braces loses them and is stripped again.
Unwrap(t) ==
    IF Len(t) > 1 /\ t[1] = "{" /\ t[Len(t)] = "}"
    THEN Strip(SubSeq(t, 2, Len(t) - 1))
    ELSE t

\* Line 484: the first line of a text of several lines, stripped.
FirstLine(t) ==
    IF \E k \in 1..Len(t) : t[k] = "\n"
    THEN LET k == CHOOSE k \in 1..Len(t) :
                      t[k] = "\n" /\ \A l \in 1..(k - 1) : t[l] # "\n"
         IN  Strip(SubSeq(t, 1, k - 1))
    ELSE t

\* _parse_drop_data
parse_drop_data(data) ==
    IF data = <<>> THEN NoPath
    ELSE LET t == Unwrap(Strip(data))
         IN  IF t = <<>> THEN NoPath
             ELSE IF ~Exists(FirstLine(t)) THEN NoPath
             ELSE APath(FirstLine(t))

\* No drop has been handled.
NoDrop == [done |-> FALSE, parsed |-> NoPath, box |-> "none"]

---------------------------------------------------------------------------
(* State. *)

VARIABLES
    \* the Tk side
    thread,           \* self.thread: "none", "alive" or "dead"
    error_occurred_worker, \* the attribute of that name on self.thread
    btn,              \* state of the Start button
    barValue,         \* self.bar["value"]
    barMaximum,       \* self.bar["maximum"]
    rec,              \* self.rec: the "Recursive" option
    keep,             \* self.keep, the "Skip existing" option
    tkQueue,          \* progress callbacks handed over with root.after(0, ...)
    pollArmed,        \* a call of _poll is pending
    pollOutcome,      \* the branch _poll took when it saw the worker ended
    \* the environment
    folder,           \* the audio files of the source folder
    fs,               \* content of each destination path
    inflight,         \* the external process the worker waits for
    \* the worker thread
    pc,               \* where the worker is
    files,            \* files, as find_audio_files returned them
    idx,              \* idx of the loop
    worker_errors,    \* worker_errors
    meta,             \* original_sample_rate, original_bitrate
    hq_stderr_cleaned,
    \* records of the current batch
    outcome,          \* per file: "none", "Success", "Skipped", "Failed"
    procLog,          \* the external tool invocations for the current file
    seen,             \* what the skip-existing check found for the current file
    attempts,         \* the encoder attempts of the current conversion task
    raised,           \* what convert_to_432 raised for the current task
    ticks,            \* the progress values handed to the Tk side
    notices,          \* the message boxes handed over with root.after(0, ...)
    prevComplete,     \* destinations already complete when the batch started
    workers,          \* the worker threads that were started and have not ended
    \* the process
    app,              \* "starting", "gui" (the main loop runs), "exited", or
                      \* "closed" (the window was closed)
    toolenv,          \* the command line and the installation
    FFMPEG,           \* the global _FFMPEG
    FFPROBE,          \* the global _FFPROBE
    resolution,       \* what _resolve_ffmpeg and main did about the tools
    exit_status,      \* the status given to sys.exit, -1 while running
    \* the source folder
    dropdata,         \* event.data of the drop on the source field
    src,              \* self.src
    dropped           \* what _ondrop_src did: the parsed path and the box shown

vars == << thread, error_occurred_worker, btn, barValue, barMaximum, rec, keep,
           tkQueue, pollArmed, pollOutcome, folder, fs, inflight, pc, files,
           idx, worker_errors, meta, hq_stderr_cleaned, outcome, procLog,
           seen, attempts, raised, ticks, notices, prevComplete, workers,
           app, toolenv, FFMPEG, FFPROBE, resolution, exit_status,
           dropdata, src, dropped, hq_table, safe_table >>

\* What neither a batch nor the "Skip existing" option changes.
appVars == << rec, app, toolenv, FFMPEG, FFPROBE, resolution, exit_status,
             dropdata, src, dropped >>

tkVars == << btn, barValue, barMaximum, keep, pollArmed, pollOutcome >>

envVars == << folder, fs, inflight >>

logVars == << outcome, procLog, seen, attempts, raised, ticks, notices,
             prevComplete >>

\* The skip-existing check has not been made for the current file.
NoSeen == [checked |-> FALSE, keep |-> FALSE, content |-> "missing"]

NoProc == [tool |-> "none", tier |-> "none", run |-> ProcRun("ok", 0, NoStream, NoStream, "untouched")]

NoMeta == [sample_rate |-> None, bit_rate |-> None]

NoError == [kind |-> "none", returncode |-> 0, tier |-> "none", stderr |-> <<>>]

\* root.after(0, lambda: self.bar.config(value=v))
BarCallback(v) == [kind |-> "bar", value |-> v]

\* A message box whose text does not carry the file's name.
MsgCallbackUnnamed(box, title, name, i) ==
    [kind |-> "msg", box |-> box, title |-> title, name |-> <<>>, of |-> i]

\* root.after(0, lambda: _messagebox.<box>(title, ... name ...)) for file i
\* (i = 0: not about one file).  Showing a box changes nothing the model
\* holds, so a box is recorded in notices when the worker hands it over.
MsgCallback(box, title, name, i) ==
    [kind |-> "msg", box |-> box, title |-> title, name |-> name, of |-> i]

\* Installations used with the batches: both tools on the search path,
\* and no tool anywhere.
BatchEnvs ==
    { ToolEnv(FALSE, TRUE, "none", Pair("absent", "absent"), Pair("exec", "exec"),
              Pair("absent", "absent"), Pair("absent", "absent"), Pair("absent", "absent")),
      ToolEnv(FALSE, TRUE, "none", Pair("absent", "absent"), Pair("absent", "absent"),
              Pair("absent", "absent"), Pair("absent", "absent"), Pair("absent", "absent")) }

\* An installation with the tools bundled next to the script.
CodecEnvs ==
    { ToolEnv(FALSE, TRUE, "none", Pair("absent", "absent"), Pair("absent", "exec"),
              Pair("exec", "exec"), Pair("absent", "absent"), Pair("absent", "absent")) }

\* What a location may hold under the two names.
Pairs ==
    { Pair("absent", "absent"), Pair("exec", "exec"), Pair("file", "file"),
      Pair("exec", "absent"), Pair("absent", "exec"), Pair("exec", "file") }

SubPairs == { Pair("absent", "absent"), Pair("exec", "exec"), Pair("exec", "absent") }

\* Command lines and installations of every kind: --ffmpeg absent, naming
\* nothing, a file (then the file exists) or a directory.
MainEnvs ==
    { ToolEnv(t, tk, k, a, pth, scr, sb, sr) :
        t \in BOOLEAN, tk \in BOOLEAN,
        k \in {"none", "missing", "file", "dir"},
        a \in Pairs, pth \in Pairs, scr \in Pairs, sb \in SubPairs, sr \in SubPairs }

MainEnvsPossible ==
    { e \in MainEnvs :
        /\ e.arg_kind \in {"none", "missing"} => e.arg = Pair("absent", "absent")
        /\ e.arg_kind = "file" => IsFile(e.arg.ffmpeg) }

\* The state when the process starts: the arguments are parsed, nothing is
\* resolved and no window exists.
Started(folders, envs, drops) ==
    /\ thread = "none"
    /\ error_occurred_worker = FALSE
    /\ btn = "normal"
    /\ barValue = 0
    /\ barMaximum = DefaultBarMaximum
    /\ tkQueue = <<>>
    /\ pollArmed = FALSE
    /\ pollOutcome = "pending"
    /\ folder \in folders
    /\ fs = [d \in DstSet |-> "missing"]
    /\ inflight = NoProc
    /\ pc = "idle"
    /\ files = <<>>
    /\ idx = 0
    /\ worker_errors = FALSE
    /\ meta = NoMeta
    /\ hq_stderr_cleaned = <<>>
    /\ outcome = <<>>
    /\ procLog = <<>>
    /\ seen = NoSeen
    /\ attempts = <<>>
    /\ raised = NoError
    /\ ticks = <<>>
    /\ notices = <<>>
    /\ prevComplete = {}
    /\ workers = 0
    /\ app = "starting"
    /\ toolenv \in envs
    /\ FFMPEG = DefaultFFMPEG
    /\ FFPROBE = DefaultFFPROBE
    /\ resolution = NoResolution
    /\ exit_status = -1
    /\ dropdata \in drops
    /\ src = NoPath
    /\ dropped = NoDrop
    /\ hq_table = HQ_CODEC
    /\ safe_table = SAFE_CODEC

\* The source folder, dropped in braces.
FolderDrop == { <<"{", "a", "}">> }

\* Batches of up to MaxFiles files.
Init ==
    /\ Started({ d \in SUBSET BatchSet : Cardinality(d) <= MaxFiles }, BatchEnvs,
               FolderDrop)
    /\ rec = TRUE
    /\ keep \in BOOLEAN

\* One file of any format, with either setting of the two options.
InitCodec ==
    /\ Started({ {p} : p \in FormatSet }, CodecEnvs, FolderDrop)
    /\ rec \in BOOLEAN
    /\ keep \in BOOLEAN

\* Every installation with an empty folder, and the installations of the
\* batches with one file.
InitMain ==
    /\ \/ Started({ {} }, MainEnvsPossible, FolderDrop)
       \/ Started({ {BatchSources[1]} }, BatchEnvs, FolderDrop)
    /\ rec = TRUE
    /\ keep = FALSE

\* Every dropped text of up to MaxDropLen characters with an empty folder,
\* and the folder dropped in braces with one file in it.
InitDrop ==
    /\ \/ Started({ {} }, BatchEnvs, DropTexts)
       \/ Started({ {BatchSources[1]} }, BatchEnvs, FolderDrop)
    /\ rec = TRUE
    /\ keep = FALSE

---------------------------------------------------------------------------
(* The worker thread: _ConverterGUI._worker and convert_to_432. *)

wVars == << files, idx, worker_errors, meta, hq_stderr_cleaned >>

Total == Len(files)

\* The worker checks its own thread object at the top of the loop.
ThreadAlive == thread = "alive"

\* Hand a callback to the Tk side: root.after(0, cb).
After(queue, cb) == Append(queue, cb)

\* Lines 750-754 (finally) followed by the end of the thread.
Finish(flag) ==
    /\ error_occurred_worker' = (IF worker_errors' /\ ~flag THEN TRUE ELSE flag)
    /\ thread' = "dead"
    /\ workers' = workers - 1
    /\ pc' = "idle"

\* Lines 665-674.
WorkerDiscover ==
    /\ UNCHANGED appVars
    /\ UNCHANGED tableVars
    /\ pc = "discover"
    /\ LET fl == find_audio_files(folder, rec)
           total == Len(fl)
           info == MsgCallback("showinfo", "Info", <<>>, 0)
       IN  /\ files' = fl
           /\ outcome' = [i \in 1..total |-> "none"]
           /\ IF total = 0
              THEN /\ notices' = Append(notices, info)
                   /\ UNCHANGED tkQueue
                   /\ barMaximum' = 0
                   /\ barValue' = 0
                   /\ worker_errors' = worker_errors
                   /\ Finish(error_occurred_worker)
              ELSE /\ barMaximum' = total
                   /\ pc' = "loop"
                   /\ UNCHANGED << tkQueue, notices, barValue, worker_errors,
                                   thread, workers, error_occurred_worker >>
    /\ UNCHANGED << btn, keep, pollArmed, pollOutcome, envVars, idx, meta,
                    hq_stderr_cleaned, procLog, seen, attempts, raised, ticks,
                    prevComplete >>

\* Line 686 with the lambda reading a value bound once.
ProgressStuck(i) == 1

\* Line 686: the progress value handed over for the file with index i.
Progress(i) == i

\* Lines 676-701: the head of the loop, the progress update and the creation
\* of the destination directory for the next file.
WorkerNextFile ==
    /\ UNCHANGED appVars
    /\ UNCHANGED tableVars
    /\ pc = "loop"
    /\ IF idx >= Total
       THEN /\ pc' = "after"
            /\ UNCHANGED << idx, worker_errors, tkQueue, ticks, notices,
                            outcome, attempts, raised, meta, hq_stderr_cleaned,
                            procLog, seen >>
       ELSE IF ~ThreadAlive
       THEN /\ pc' = "after"
            /\ worker_errors' = TRUE
            /\ UNCHANGED << idx, tkQueue, ticks, notices, outcome, attempts,
                            raised, meta, hq_stderr_cleaned, procLog, seen >>
       ELSE LET i == idx + 1
                bar == BarCallback(Progress(i))
                err == MsgCallback("showerror", "File Error", DstName(files[i]), i)
            IN  /\ idx' = i
                /\ ticks' = Append(ticks, bar.value)
                /\ attempts' = <<>>
                /\ raised' = NoError
                /\ meta' = NoMeta
                /\ hq_stderr_cleaned' = <<>>
                /\ tkQueue' = After(tkQueue, bar)
                /\ procLog' = <<>>
                /\ seen' = NoSeen
                /\ \E mkdir \in {"ok", "OSError"} :
                     IF mkdir = "ok"
                     THEN /\ pc' = "check"
                          /\ UNCHANGED << worker_errors, notices, outcome >>
                     ELSE /\ notices' = Append(notices, err)
                          /\ worker_errors' = TRUE
                          /\ outcome' = [outcome EXCEPT ![i] = "Failed"]
                          /\ pc' = "loop"
    /\ UNCHANGED << thread, workers, error_occurred_worker, tkVars, envVars, files,
                    prevComplete >>

\* Lines 703-705: the skip-existing check; exists() and stat() may raise.
WorkerSkipCheck ==
    /\ UNCHANGED appVars
    /\ UNCHANGED tableVars
    /\ pc = "check"
    /\ \E stat \in {"ok", "OSError"} :
         IF keep /\ stat = "OSError"
         THEN /\ pc' = "except"
              /\ UNCHANGED << outcome, seen >>
         ELSE /\ seen' = [checked |-> TRUE, keep |-> keep,
                          content |-> fs[DstPath(files[idx])]]
              /\ IF ShouldSkip(keep, fs[DstPath(files[idx])])
                 THEN /\ pc' = "loop"
                      /\ outcome' = [outcome EXCEPT ![idx] = "Skipped"]
                 ELSE /\ pc' = "probe"
                      /\ UNCHANGED outcome
    /\ UNCHANGED << thread, workers, error_occurred_worker, tkVars, tkQueue, envVars,
                    wVars, procLog, attempts, raised, ticks, notices,
                    prevComplete >>

\* Line 710 with the test dropped.
SampleRateMissingNever(sr) == FALSE

\* Line 710: `if original_sample_rate is None`.
SampleRateMissing(sr) == sr = None

\* Lines 708-715: what the worker does with the result of the probe.
ProbeReturns(run) ==
    LET m == get_audio_metadata(run)
        warn == MsgCallback("showwarning", "Skipped", SrcName(files[idx]), idx)
    IN  IF m.raised
        THEN /\ pc' = "except"
             /\ UNCHANGED << meta, worker_errors, notices, outcome >>
        ELSE IF SampleRateMissing(m.sample_rate)
        THEN /\ notices' = Append(notices, warn)
             /\ worker_errors' = TRUE
             /\ outcome' = [outcome EXCEPT ![idx] = "Failed"]
             /\ pc' = "loop"
             /\ UNCHANGED meta
        ELSE /\ meta' = [sample_rate |-> m.sample_rate, bit_rate |-> m.bit_rate]
             /\ pc' = "convert"
             /\ UNCHANGED << worker_errors, notices, outcome >>

\* One call of _popen_run made for file i, with its command line.  The
\* worker passes target_sample_rate for sr (line 720); ext is
\* dst.suffix.lower() (line 417).
Invocation(tool, tier, i) ==
    LET dst == DstPath(files[i])
        ext == Lower(ExtOut(files[i].ext))
        base == base_cmd_list(FFMPEG, SrcPath(files[i]), Chain(target_sample_rate))
    IN  [tool |-> tool, tier |-> tier, of |-> i,
         cmd |-> IF tool = "ffprobe" THEN ProbeCmd(FFPROBE, SrcPath(files[i]))
                 ELSE IF tier = "HQ"
                 THEN hq_cmd_list(base, HQOptions(ext, meta.bit_rate), dst)
                 ELSE safe_cmd_list(base, SafeOptions(ext, meta.bit_rate), dst)]

\* Line 316: the inspector is started (or cannot be started).
WorkerProbeLaunch ==
    /\ UNCHANGED appVars
    /\ UNCHANGED tableVars
    /\ pc = "probe"
    /\ \E run \in InspectorRuns(files[idx]) :
         /\ procLog' = Append(procLog, Invocation("ffprobe", "none", idx))
         /\ IF run.launch = "ok"
            THEN /\ inflight' = [tool |-> "ffprobe", tier |-> "none", run |-> run]
                 /\ pc' = "probe_wait"
                 /\ UNCHANGED << meta, worker_errors, notices, outcome >>
            ELSE /\ ProbeReturns(run)
                 /\ UNCHANGED inflight
    /\ UNCHANGED << thread, workers, error_occurred_worker, tkVars, tkQueue, folder,
                    fs, files, idx, hq_stderr_cleaned, seen, attempts, raised,
                    ticks, prevComplete >>

\* The inspector exits and _get_audio_metadata returns.
WorkerProbeExit ==
    /\ UNCHANGED appVars
    /\ UNCHANGED tableVars
    /\ pc = "probe_wait"
    /\ ProbeReturns(inflight.run)
    /\ inflight' = NoProc
    /\ UNCHANGED << thread, workers, error_occurred_worker, tkVars, tkQueue, folder,
                    fs, files, idx, hq_stderr_cleaned, procLog, seen, attempts,
                    raised, ticks, prevComplete >>

---------------------------------------------------------------------------
(* convert_to_432, called at line 720, and the handlers of lines 722-735. *)

\* Line 428 taking every status for a success.
HQAttemptOkAlways(returncode) == TRUE

\* Line 428: the HQ attempt succeeded.
HQAttemptOk(returncode) == returncode = 0

\* Line 444 with the test inverted.
SafeAttemptOkInverted(returncode) == returncode # 0

\* Line 444: the Safe attempt succeeded.
SafeAttemptOk(returncode) == returncode = 0

\* Line 452: final_err_message, as its lines.
final_err_message(hq, safe) == <<"HQ error:">> \o hq \o <<"Safe error:">> \o safe

\* Line 453 raising with the status of the HQ attempt.
RaisedStatusOfHQ(hq_rc, safe_rc) == hq_rc

\* Line 453: the status carried by the CalledProcessError.
RaisedStatus(hq_rc, safe_rc) == safe_rc

Attempt(tier, r) ==
    [tier |-> tier, returncode |-> r.returncode, stderr |-> r.stderr]

\* The handler of lines 729-735: an exception other than CalledProcessError.
ConvertUnexpected(kind) ==
    LET err == MsgCallback("showerror", "Conversion Error", SrcName(files[idx]), idx)
    IN  /\ notices' = Append(notices, err)
        /\ worker_errors' = TRUE
        /\ outcome' = [outcome EXCEPT ![idx] = "Failed"]
        /\ raised' = [kind |-> kind, returncode |-> 0, tier |-> "none", stderr |-> <<>>]
        /\ pc' = "loop"

\* Line 721: convert_to_432 returned.
ConvertSucceeded ==
    /\ outcome' = [outcome EXCEPT ![idx] = "Success"]
    /\ pc' = "loop"
    /\ UNCHANGED << notices, worker_errors, raised >>

\* Lines 426-434: the HQ attempt has ended.
HQReturns(run) ==
    LET pr == popen_run(run)
        r == pr.result
    IN  IF pr.raised
        THEN /\ ConvertUnexpected("OSError")
             /\ UNCHANGED << fs, attempts, hq_stderr_cleaned >>
        ELSE /\ attempts' = Append(attempts, Attempt("HQ", r))
             /\ fs' = [fs EXCEPT ![DstPath(files[idx])] = Leaves(run, @)]
             /\ IF HQAttemptOk(r.returncode)
                THEN /\ ConvertSucceeded
                     /\ UNCHANGED hq_stderr_cleaned
                ELSE /\ hq_stderr_cleaned' = StderrCleaned(r.stderr)
                     /\ pc' = "safe"
                     /\ UNCHANGED << notices, worker_errors, outcome, raised >>

\* Lines 372-426: the destination directory is created again, the HQ command
\* is built and the encoder is started (or cannot be started).
WorkerConvert ==
    /\ UNCHANGED appVars
    /\ UNCHANGED safe_table
    /\ pc = "convert"
    /\ \E mkdir \in {"ok", "OSError"} :
         IF mkdir = "OSError"
         THEN /\ ConvertUnexpected("OSError")
              /\ UNCHANGED << fs, attempts, hq_stderr_cleaned, inflight, procLog,
                              hq_table >>
         ELSE \E run \in EncoderRuns(files[idx]) :
                /\ procLog' = Append(procLog, Invocation("ffmpeg", "HQ", idx))
                /\ hq_table' = TableAfter(hq_table, Lower(ExtOut(files[idx].ext)),
                                          Invocation("ffmpeg", "HQ", idx).cmd.codec)
                /\ IF run.launch = "ok"
                   THEN /\ inflight' = [tool |-> "ffmpeg", tier |-> "HQ", run |-> run]
                        /\ pc' = "hq_wait"
                        /\ UNCHANGED << fs, attempts, hq_stderr_cleaned,
                                        notices, worker_errors, outcome, raised >>
                   ELSE /\ HQReturns(run)
                        /\ UNCHANGED inflight
    /\ UNCHANGED << thread, workers, error_occurred_worker, tkVars, tkQueue, folder,
                    files, idx, meta, seen, ticks, prevComplete >>

\* The HQ run of the encoder exits.
WorkerHQExit ==
    /\ UNCHANGED appVars
    /\ UNCHANGED tableVars
    /\ pc = "hq_wait"
    /\ HQReturns(inflight.run)
    /\ inflight' = NoProc
    /\ UNCHANGED << thread, workers, error_occurred_worker, tkVars, tkQueue, folder,
                    files, idx, meta, procLog, seen, ticks, prevComplete >>

\* Lines 443-453 and the handler of lines 722-728: the Safe attempt has ended.
SafeReturns(run) ==
    LET pr == popen_run(run)
        r == pr.result
        safe_stderr_cleaned == StderrCleaned(r.stderr)
        err == MsgCallback("showerror", "Conversion Error", SrcName(files[idx]), idx)
    IN  IF pr.raised
        THEN /\ ConvertUnexpected("OSError")
             /\ UNCHANGED << fs, attempts >>
        ELSE /\ attempts' = Append(attempts, Attempt("Safe", r))
             /\ fs' = [fs EXCEPT ![DstPath(files[idx])] = Leaves(run, @)]
             /\ IF SafeAttemptOk(r.returncode)
                THEN ConvertSucceeded
                ELSE /\ raised' =
                          [kind |-> "CalledProcessError",
                           returncode |-> RaisedStatus(attempts[1].returncode, r.returncode),
                           tier |-> "Safe",
                           stderr |-> final_err_message(hq_stderr_cleaned,
                                                        safe_stderr_cleaned)]
                     /\ notices' = Append(notices, err)
                     /\ worker_errors' = TRUE
                     /\ outcome' = [outcome EXCEPT ![idx] = "Failed"]
                     /\ pc' = "loop"

\* Lines 436-443: the Safe command is built and the encoder is started.
WorkerSafeLaunch ==
    /\ UNCHANGED appVars
    /\ UNCHANGED hq_table
    /\ pc = "safe"
    /\ safe_table' = TableAfter(safe_table, Lower(ExtOut(files[idx].ext)),
                                Invocation("ffmpeg", "Safe", idx).cmd.codec)
    /\ \E run \in EncoderRuns(files[idx]) :
         /\ procLog' = Append(procLog, Invocation("ffmpeg", "Safe", idx))
         /\ IF run.launch = "ok"
            THEN /\ inflight' = [tool |-> "ffmpeg", tier |-> "Safe", run |-> run]
                 /\ pc' = "safe_wait"
                 /\ UNCHANGED << fs, attempts, notices, worker_errors,
                                 outcome, raised >>
            ELSE /\ SafeReturns(run)
                 /\ UNCHANGED inflight
    /\ UNCHANGED << thread, workers, error_occurred_worker, tkVars, tkQueue, folder,
                    files, idx, meta, hq_stderr_cleaned, seen, ticks,
                    prevComplete >>

\* The Safe run of the encoder exits.
WorkerSafeExit ==
    /\ UNCHANGED appVars
    /\ UNCHANGED tableVars
    /\ pc = "safe_wait"
    /\ SafeReturns(inflight.run)
    /\ inflight' = NoProc
    /\ UNCHANGED << thread, workers, error_occurred_worker, tkVars, tkQueue, folder,
                    files, idx, meta, hq_stderr_cleaned, procLog, seen, ticks,
                    prevComplete >>

\* Lines 737-742, the finally block and the end of the thread.
WorkerAfterLoop ==
    /\ UNCHANGED appVars
    /\ UNCHANGED tableVars
    /\ pc = "after"
    /\ LET full == BarCallback(Total)
       IN  IF ~worker_errors /\ Total > 0
           THEN /\ tkQueue' = After(tkQueue, full)
                /\ ticks' = Append(ticks, full.value)
           ELSE UNCHANGED << tkQueue, ticks >>
    /\ worker_errors' = worker_errors
    /\ Finish(IF worker_errors THEN TRUE ELSE error_occurred_worker)
    /\ UNCHANGED << tkVars, envVars, files, idx, meta, hq_stderr_cleaned,
                    outcome, procLog, seen, attempts, raised, notices,
                    prevComplete >>

\* Lines 745-754: an exception that no per-file handler caught ends the loop.
WorkerExcept ==
    /\ UNCHANGED appVars
    /\ UNCHANGED tableVars
    /\ pc = "except"
    /\ LET crit == MsgCallback("showerror", "Critical Worker Error", <<>>, 0)
       IN  notices' = Append(notices, crit)
    /\ worker_errors' = worker_errors
    /\ Finish(TRUE)
    /\ UNCHANGED << tkVars, tkQueue, envVars, files, idx, meta,
                    hq_stderr_cleaned, outcome, procLog, seen, attempts, raised,
                    ticks, prevComplete >>

---------------------------------------------------------------------------
(* The Tk side: _start, _poll, the callbacks the worker scheduled, and the
   "Skip existing" option. *)

\* Lines 596-599 never finding a worker.
BusyNever(th) == FALSE

\* Lines 596-599: a worker is alive.
Busy(th) == th = "alive"

\* _start.  The button is disabled from line 626 to line 637, so a click
\* reaches _start only while it is enabled; a request that arrives while a
\* worker is alive gets the "Busy" answer.  Tk runs the after(0) handlers a
\* finished worker left behind before it delivers the next click.
Start ==
    /\ app = "gui"
    /\ btn = "normal" \/ thread = "alive"
    /\ \E valid \in BOOLEAN :
         IF Busy(thread) \/ src.none \/ ~valid
         THEN UNCHANGED vars
         ELSE /\ tkQueue = <<>>
              /\ btn' = "disabled"
              /\ barValue' = 0
              /\ thread' = "alive"
              /\ workers' = workers + 1
              /\ error_occurred_worker' = FALSE
              /\ pollArmed' = TRUE
              /\ pollOutcome' = "pending"
              /\ pc' = "discover"
              /\ files' = <<>>
              /\ idx' = 0
              /\ worker_errors' = FALSE
              /\ meta' = NoMeta
              /\ hq_stderr_cleaned' = <<>>
              /\ outcome' = <<>>
              /\ procLog' = <<>>
              /\ seen' = NoSeen
              /\ attempts' = <<>>
              /\ raised' = NoError
              /\ ticks' = <<>>
              /\ notices' = <<>>
              /\ prevComplete' = { d \in DstSet : fs[d] = "complete" }
              /\ UNCHANGED << barMaximum, keep, tkQueue, envVars, appVars, tableVars >>

\* Lines 639-654 deciding on the error flag alone.
PollBranchNoBar(had_errors, maximum, value) ==
    IF had_errors THEN "errors" ELSE "complete"

\* Lines 639-654: the branch _poll takes once the worker has ended.
PollBranch(had_errors, maximum, value) ==
    IF had_errors THEN "errors"
    ELSE IF maximum = 0 /\ value = 0 THEN "none_found"
    ELSE IF value = maximum /\ maximum > 0 THEN "complete"
    ELSE "indeterminate"

\* _poll leaving the button as it is.
PollButtonLeft == "disabled"

\* Line 637: self.btn.config(state="normal")
PollButton == "normal"

\* _poll.
Poll ==
    /\ app = "gui"
    /\ pollArmed
    /\ IF thread = "alive"
       THEN UNCHANGED vars
       ELSE /\ btn' = PollButton
            /\ pollOutcome' =
                 PollBranch(thread # "none" /\ error_occurred_worker,
                            barMaximum, barValue)
            /\ barValue' = 0
            /\ pollArmed' = FALSE
            /\ UNCHANGED << thread, workers, error_occurred_worker, barMaximum,
                            keep, tkQueue, envVars, pc, wVars, logVars, appVars,
                            tableVars >>

\* The Tk event loop runs the oldest progress callback scheduled with
\* after(0, ...).
RunCallback ==
    /\ UNCHANGED appVars
    /\ UNCHANGED tableVars
    /\ tkQueue # <<>>
    /\ LET cb == Head(tkQueue)
       IN  barValue' = cb.value
    /\ tkQueue' = Tail(tkQueue)
    /\ UNCHANGED << thread, workers, error_occurred_worker, btn, barMaximum, keep,
                    pollArmed, pollOutcome, envVars, pc, wVars, logVars >>

\* The user changes the "Skip existing" option between batches.
ToggleKeep ==
    /\ UNCHANGED appVars
    /\ UNCHANGED tableVars
    /\ app = "gui"
    /\ thread # "alive"
    /\ keep' = ~keep
    /\ UNCHANGED << thread, workers, error_occurred_worker, btn, barValue, barMaximum,
                    tkQueue, pollArmed, pollOutcome, envVars, pc, wVars, logVars >>

\* _Tests.test_codec_quality
test_codec_quality ==
    /\ \E k \in 1..Len(codec_for_ext(".mp3", FALSE)) : codec_for_ext(".mp3", FALSE)[k] = Tok("-b:a")
    /\ \E k \in 1..Len(codec_for_ext(".aac", FALSE)) : codec_for_ext(".aac", FALSE)[k] = Kbps(512)
    /\ codec_for_ext(".wma", FALSE) # <<>>
    /\ codec_for_ext(".wma", TRUE) # <<>>

\* What main leaves behind about the tools.  The diagnostic is the error
\* box or the line on stderr of lines 839-843; with --test the failure is
\* only logged (lines 176 and 808-810).
Resolved(r, diagnostic) ==
    [source |-> r.source, consulted |-> r.consulted, failed |-> r.failed,
     diagnostic |-> diagnostic]

\* main: with --test, _run_tests (which resolves without an argument, goes
\* on if that exits, and exits with the result of the tests); otherwise
\* _resolve_ffmpeg with the argument, the handler of SystemExit, the test
\* for Tkinter, the construction of the window and the main loop.
Main ==
    /\ app = "starting"
    /\ IF toolenv.test
       THEN LET r == resolve_ffmpeg(toolenv, FALSE)
            IN  /\ FFMPEG' = r.ffmpeg
                /\ FFPROBE' = r.ffprobe
                /\ resolution' = Resolved(r, IF r.failed # "none" THEN "log" ELSE "none")
                /\ app' = "exited"
                /\ \E test_parse_drop_data \in BOOLEAN :
                     exit_status' = IF test_codec_quality /\ test_parse_drop_data
                                    THEN 0 ELSE 1
       ELSE LET r == resolve_ffmpeg(toolenv, TRUE)
            IN  /\ FFMPEG' = r.ffmpeg
                /\ FFPROBE' = r.ffprobe
                /\ IF r.failed # "none"
                   THEN /\ resolution' = Resolved(r, IF toolenv.tk THEN "showerror" ELSE "stderr")
                        /\ app' = "exited"
                        /\ exit_status' = 1
                   ELSE IF ~toolenv.tk
                   THEN /\ resolution' = Resolved(r, "stderr")
                        /\ app' = "exited"
                        /\ exit_status' = 1
                   ELSE /\ resolution' = Resolved(r, "none")
                        /\ app' = "gui"
                        /\ UNCHANGED exit_status
    /\ UNCHANGED << thread, workers, error_occurred_worker, tkVars, tkQueue,
                    envVars, pc, wVars, logVars, rec, toolenv, dropdata, src,
                    dropped, tableVars >>

\* _ondrop_src and _set_src: a folder is dropped on the source field.  The
\* user drops once, before the first batch.
Drop ==
    /\ app = "gui"
    /\ thread = "none"
    /\ ~dropped.done
    /\ LET p == parse_drop_data(dropdata)
       IN  IF ~p.none /\ IsDir(p.path)
           THEN /\ src' = p
                /\ dropped' = [done |-> TRUE, parsed |-> p, box |-> "none"]
           ELSE /\ dropped' = [done |-> TRUE, parsed |-> p,
                               box |-> IF ~p.none THEN "Invalid Drop" ELSE "Drop Error"]
                /\ UNCHANGED src
    /\ UNCHANGED << thread, workers, error_occurred_worker, tkVars, tkQueue,
                    envVars, pc, wVars, logVars, rec, app, toolenv, FFMPEG,
                    FFPROBE, resolution, exit_status, dropdata, tableVars >>

Next ==
    \/ Main
    \/ Drop
    \/ Start
    \/ Poll
    \/ RunCallback
    \/ ToggleKeep
    \/ WorkerDiscover
    \/ WorkerNextFile
    \/ WorkerSkipCheck
    \/ WorkerProbeLaunch
    \/ WorkerProbeExit
    \/ WorkerConvert
    \/ WorkerHQExit
    \/ WorkerSafeLaunch
    \/ WorkerSafeExit
    \/ WorkerAfterLoop
    \/ WorkerExcept

Spec == Init /\ [][Next]_vars

SpecCodec == InitCodec /\ [][Next]_vars

SpecMain == InitMain /\ [][Next]_vars

SpecDrop == InitDrop /\ [][Next]_vars

\* The batches over an empty folder and over two files, with what keeps
\* them going: the worker thread is scheduled while it can take a step, an
\* external process that was started exits, and the Tk event loop runs the
\* timer of _poll (line 635) and the callbacks handed to it.
InitLive ==
    /\ Started({ {}, {BatchSources[1], BatchSources[2]} }, BatchEnvs, FolderDrop)
    /\ rec = TRUE
    /\ keep = FALSE

Fairness ==
    /\ WF_vars(WorkerDiscover)
    /\ WF_vars(WorkerNextFile)
    /\ WF_vars(WorkerSkipCheck)
    /\ WF_vars(WorkerProbeLaunch)
    /\ WF_vars(WorkerProbeExit)
    /\ WF_vars(WorkerConvert)
    /\ WF_vars(WorkerHQExit)
    /\ WF_vars(WorkerSafeLaunch)
    /\ WF_vars(WorkerSafeExit)
    /\ WF_vars(WorkerAfterLoop)
    /\ WF_vars(WorkerExcept)
    /\ WF_vars(Poll)
    /\ WF_vars(RunCallback)

SpecLive == InitLive /\ [][Next]_vars /\ Fairness

\* The user closes the window: mainloop returns (line 877), main returns and
\* the interpreter exits with status 0.  The worker is a daemon thread (line
\* 628): it ends with the interpreter wherever it is, without running its
\* handlers; an external process it waited for is left behind; the timer of
\* _poll and the callbacks handed to Tk are never run.
Close ==
    /\ app = "gui"
    /\ app' = "closed"
    /\ exit_status' = 0
    /\ IF thread = "alive"
       THEN /\ thread' = "killed"
            /\ workers' = workers - 1
            /\ pc' = "idle"
       ELSE UNCHANGED << thread, workers, pc >>
    /\ pollArmed' = FALSE
    /\ tkQueue' = <<>>
    /\ UNCHANGED << error_occurred_worker, btn, barValue, barMaximum, rec, keep,
                    pollOutcome, envVars, wVars, logVars, toolenv, FFMPEG, FFPROBE,
                    resolution, dropdata, src, dropped, tableVars >>

\* The application with a user who may close the window at any time.
NextClosing == Next \/ Close

SpecClose == InitLive /\ [][NextClosing]_vars

---------------------------------------------------------------------------
(* Vocabulary of the properties. *)

\* The files of the current batch whose handling ended in a failure.
FailedFiles == { i \in 1..Len(outcome) : outcome[i] = "Failed" }

\* The handling of file idx has ended and the worker went on.
TaskEnded == idx > 0 /\ outcome[idx] # "none" /\ pc \in {"loop", "after", "idle"}

\* Every discovered file has been handled.
AllHandled ==
    /\ idx = Total
    /\ \A i \in 1..Len(outcome) : outcome[i] # "none"

\* The encoder and inspector invocations made for the current file, in order.
EncoderCalls == SelectSeq(procLog, LAMBDA e : e.tool = "ffmpeg")

ProbeCalls == SelectSeq(procLog, LAMBDA e : e.tool = "ffprobe")

\* The notices shown about file i.
NoticesOf(i) == SelectSeq(notices, LAMBDA n : n.of = i)

\* The name a notice about file i has to carry: the source's name, or the
\* name of its destination file when the directory could not be created.
NamesFile(n, i) ==
    \/ n.name = SrcName(files[i])
    \/ n.title = "File Error" /\ n.name = DstName(files[i])

---------------------------------------------------------------------------
(* C1 *)

\* C1: per-file isolation.  A failure in a per-file step of file i never
\* aborts the batch: when the worker has ended, every discovered file has been
\* handled (has an outcome), and none was left behind by an exception.
C1_BatchNeverAborted ==
    thread = "dead" =>
        /\ idx = Len(files)
        /\ \A i \in 1..Len(files) : outcome[i] # "none"
        /\ \A k \in 1..Len(notices) : notices[k].title # "Critical Worker Error"

---------------------------------------------------------------------------
(* C2 *)

\* C2: two-tier retry order.  The encoder runs with the HQ arguments first;
\* the Safe attempt is run if and only if the HQ attempt ended with a non-zero
\* status, and after it; a task causes at most two encoder invocations; the
\* task succeeds if and only if one of its attempts returned status zero.
C2_TwoTierRetry ==
    /\ Len(EncoderCalls) <= 2
    /\ Len(attempts) <= Len(EncoderCalls)
    /\ Len(EncoderCalls) >= 1 => EncoderCalls[1].tier = "HQ"
    /\ Len(attempts) >= 1 => attempts[1].tier = "HQ"
    /\ Len(EncoderCalls) = 2 =>
          /\ EncoderCalls[2].tier = "Safe"
          /\ Len(attempts) >= 1
          /\ attempts[1].returncode # 0
    /\ Len(attempts) = 2 => attempts[2].tier = "Safe"
    /\ (Len(attempts) >= 1 /\ pc # "safe") =>
          (Len(EncoderCalls) = 2 <=> attempts[1].returncode # 0)
    /\ (attempts # <<>> /\ TaskEnded) =>
          /\ outcome[idx] = "Success" <=>
                \E k \in 1..Len(attempts) : attempts[k].returncode = 0
          /\ outcome[idx] = "Failed" <=>
                (Len(attempts) = 2 /\ raised.kind = "CalledProcessError")

\* A task whose HQ attempt failed and whose Safe attempt was run.
C2_Witness ==
    /\ Len(attempts) = 2
    /\ Len(EncoderCalls) = 2
    /\ attempts[1].returncode # 0
    /\ TaskEnded

---------------------------------------------------------------------------
(* C3 *)

\* C3: when both attempts fail, the task fails with one diagnostic that holds
\* the cleaned HQ text under "HQ error:" and the cleaned Safe text under
\* "Safe error:", and carries the exit status of the Safe attempt.
C3_BothFailDiagnostic ==
    (Len(attempts) = 2 /\ attempts[2].returncode # 0) =>
        LET hq == StderrCleaned(attempts[1].stderr)
            safe == StderrCleaned(attempts[2].stderr)
            d == raised.stderr
        IN  /\ raised.kind = "CalledProcessError"
            /\ raised.returncode = attempts[2].returncode
            /\ Len(d) = Len(hq) + Len(safe) + 2
            /\ d[1] = "HQ error:"
            /\ SubSeq(d, 2, Len(hq) + 1) = hq
            /\ d[Len(hq) + 2] = "Safe error:"
            /\ SubSeq(d, Len(hq) + 3, Len(d)) = safe
            /\ Len(NoticesOf(idx)) = 1

\* Both attempts failed, with different statuses and different texts.
C3_Witness ==
    /\ Len(attempts) = 2
    /\ raised.kind = "CalledProcessError"
    /\ attempts[1].returncode # attempts[2].returncode
    /\ attempts[1].returncode # 0
    /\ StderrCleaned(attempts[1].stderr) # StderrCleaned(attempts[2].stderr)

---------------------------------------------------------------------------
(* C4 *)

\* C4: degraded success is not an error.  When the HQ attempt fails and the
\* Safe attempt succeeds, the task ends as a success, nothing is raised, no
\* notice is shown for the file, and the error flag is set only if some other
\* file failed.
C4_DegradedSuccess ==
    (Len(attempts) = 2 /\ attempts[1].returncode # 0 /\ attempts[2].returncode = 0) =>
        /\ outcome[idx] = "Success"
        /\ raised = NoError
        /\ NoticesOf(idx) = <<>>
        /\ worker_errors => FailedFiles # {}
        /\ idx \notin FailedFiles
        /\ pc # "except"

\* The only file of a batch was converted by the Safe attempt and the worker
\* ended without the error flag.
C4_Witness ==
    /\ Len(attempts) = 2
    /\ attempts[1].returncode # 0
    /\ attempts[2].returncode = 0
    /\ thread = "dead"
    /\ ~error_occurred_worker
    /\ ~worker_errors

---------------------------------------------------------------------------
(* C5 *)

\* The values handed to the progress bar: one per file begun, 1, 2, ..., in
\* order, then at most a repeat of N after the loop; N has been handed over
\* when the last file has been begun; the bar shows the values handed over.
C5_Ticks ==
    /\ Len(ticks) \in {idx, idx + 1}
    /\ \A k \in 1..idx : ticks[k] = k
    /\ Len(ticks) = idx + 1 => (idx = Total /\ ticks[idx + 1] = Total)
    /\ \A k \in 1..Len(ticks) : \A l \in k..Len(ticks) : ticks[k] <= ticks[l]
    /\ (Total > 0 /\ idx = Total) => ticks[Len(ticks)] = Total
    /\ (btn = "disabled" /\ Total > 0 /\ idx = Total /\ tkQueue = <<>>) =>
          barValue = Total

\* C5: progress counter.  During a batch of N > 0 files the progress value
\* never decreases, is advanced exactly once for each file whatever the
\* file's outcome, and has reached N when the last file has been handled.
C5_Progress ==
    /\ []C5_Ticks
    /\ [][(btn = "disabled" /\ btn' = "disabled") => barValue' >= barValue]_vars

\* A batch of two files, one failed and one skipped, with the bar at 2.
C5_Witness ==
    /\ Total = 2
    /\ idx = 2
    /\ btn = "disabled"
    /\ barValue = 2
    /\ outcome[1] = "Failed"
    /\ outcome[2] = "Skipped"

---------------------------------------------------------------------------
(* C6 *)

\* The skip-existing check of the current file found the option enabled and
\* a destination of non-zero size.
FoundExisting == seen.checked /\ seen.keep /\ NonZero(seen.content)

\* convert_to_432 was called for the current file.
ConvertCalled == EncoderCalls # <<>> \/ raised.kind # "none"

\* What C6 and its amended form share: a file found existing is neither
\* probed nor converted, its outcome is Skipped and the batch goes on.
C6_Skips ==
    FoundExisting =>
        /\ procLog = <<>>
        /\ ~ConvertCalled
        /\ outcome[idx] = "Skipped"
        /\ idx \notin FailedFiles
        /\ NoticesOf(idx) = <<>>
        /\ pc \in {"loop", "after", "idle"}

\* C6 as stated: ... and when skip-existing is disabled or the destination is
\* missing or empty, the source is probed and converted.
C6_SkipExisting ==
    /\ C6_Skips
    /\ (seen.checked /\ ~FoundExisting /\ TaskEnded) =>
          /\ Len(ProbeCalls) = 1
          /\ ConvertCalled

\* C6 amended: ... and when the check finds skip-existing disabled or the
\* destination missing or empty, the source is probed once, and it is
\* converted if and only if the probe yields a sample rate; without one the
\* file fails with a warning and the batch goes on.
C6_SkipExistingAmended ==
    /\ C6_Skips
    /\ (seen.checked /\ ~FoundExisting /\ pc # "probe") => Len(ProbeCalls) = 1
    /\ (seen.checked /\ ~FoundExisting /\ TaskEnded) =>
          /\ ConvertCalled <=> meta.sample_rate # None
          /\ ~ConvertCalled =>
                /\ outcome[idx] = "Failed"
                /\ Len(NoticesOf(idx)) = 1
                /\ NoticesOf(idx)[1].title = "Skipped"

\* One batch skipped a file found existing and, before it, converted a file
\* whose destination was empty or missing.
C6_Witness ==
    /\ FoundExisting
    /\ outcome[idx] = "Skipped"
    /\ idx = 2
    /\ outcome[1] = "Success"

---------------------------------------------------------------------------
(* C7 *)

\* A step starts the encoder on destination d.
EncoderStartedOn(d) ==
    /\ Len(procLog') > Len(procLog)
    /\ procLog'[Len(procLog')].tool = "ffmpeg"
    /\ DstPath(files[idx]) = d

\* C7: idempotence of the batch.  A file converted successfully leaves a
\* complete destination, and while skip-existing is enabled no step changes
\* a complete destination or starts the encoder on it: a second run leaves
\* what the first run converted unchanged.
C7_Idempotent ==
    [][ /\ \A d \in DstSet :
             (keep /\ fs[d] = "complete") =>
                 (fs'[d] = "complete" /\ ~EncoderStartedOn(d))
        /\ (idx > 0 /\ idx' = idx /\ outcome # <<>> /\ outcome'[idx] = "Success"
              /\ outcome[idx] # "Success") =>
             fs'[DstPath(files[idx])] = "complete"
      ]_vars

\* A later run, with skip-existing enabled, has gone through two files that
\* an earlier run had converted, and skipped both.
C7_Witness ==
    /\ keep
    /\ thread = "dead"
    /\ Total = 2
    /\ \A i \in 1..Total :
         /\ outcome[i] = "Skipped"
         /\ DstPath(files[i]) \in prevComplete
         /\ fs[DstPath(files[i])] = "complete"

---------------------------------------------------------------------------
(* C8 *)

\* The failure count a caller can read from the worker: the worker keeps one
\* boolean (lines 741-742 and 753-754) and no count.
FailuresReported == IF error_occurred_worker THEN 1 ELSE 0

\* Each failed file has exactly one notice, naming it; no other file has one.
C8_Notified ==
    \A i \in 1..Len(outcome) :
        IF i \in FailedFiles
        THEN /\ Len(NoticesOf(i)) = 1
             /\ NoticesOf(i)[1].box \in {"showerror", "showwarning"}
             /\ NamesFile(NoticesOf(i)[1], i)
        ELSE NoticesOf(i) = <<>>

\* C8 as stated: every failed file has its own notice naming it, and when
\* every file of the batch has been handled the run-level tally reports |F|
\* failed.
C8_NotifiedAndCounted ==
    /\ C8_Notified
    /\ (thread = "dead" /\ AllHandled) =>
          FailuresReported = Cardinality(FailedFiles)

\* C8 amended: every failed file has its own notice naming it (by its
\* destination name when the directory could not be created), and the worker
\* ends with its error flag set if any file failed; no count is kept.
C8_NotifiedAndFlagged ==
    /\ C8_Notified
    /\ FailedFiles # {} => worker_errors
    /\ (thread = "dead" /\ FailedFiles # {}) => error_occurred_worker

\* Two files of one batch failed, one at the directory and one at the probe
\* or the conversion, and the worker ended.
C8_Witness ==
    /\ thread = "dead"
    /\ Cardinality(FailedFiles) = 2
    /\ \E i \in FailedFiles : NoticesOf(i)[1].title = "File Error"
    /\ \E i \in FailedFiles : NoticesOf(i)[1].title # "File Error"

---------------------------------------------------------------------------
(* C9 *)

---------------------------------------------------------------------------
(* C10 *)

\* The number the inspector reported in a field of its first stream, absent
\* if the run gives none.
Reported(run, field) ==
    LET doc == run.stdout.json
    IN  IF /\ run.launch = "ok"
           /\ run.returncode = 0
           /\ run.stdout.captured
           /\ doc.shape = "dict"
           /\ doc.has_streams
           /\ doc.streams # <<>>
           /\ doc.streams[1].shape = "dict"
           /\ doc.streams[1][field].t = "digits"
        THEN Some(doc.streams[1][field].n)
        ELSE None

\* The inspector did not run to a successful end with a document.
NothingReported(run) ==
    \/ run.launch # "ok"
    \/ run.returncode # 0
    \/ ~run.stdout.captured
    \/ run.stdout.json.shape # "dict"

\* C10: the metadata probe never raises.  For every outcome of the inspector
\* _get_audio_metadata returns a pair in which a value that could not be
\* obtained is absent, and the worker continues with the conversion or with
\* the next file.
C10_ProbeNeverRaises ==
    [][ (pc \in {"probe", "probe_wait"} /\ pc' \notin {"probe", "probe_wait"}) =>
          /\ pc' \in {"convert", "loop"}
          /\ thread' = "alive"
          /\ pc' = "convert" => (meta'.sample_rate # None /\ outcome' = outcome)
          /\ pc' = "loop" => (meta' = NoMeta /\ outcome'[idx] = "Failed")
          /\ pc = "probe_wait" =>
               LET run == inflight.run
                   m == get_audio_metadata(run)
               IN  /\ ~m.raised
                   /\ m.sample_rate \in {None, Reported(run, "sample_rate")}
                   /\ m.bit_rate \in {None, Reported(run, "bit_rate")}
                   /\ NothingReported(run) => (m.sample_rate = None /\ m.bit_rate = None)
                   /\ pc' = "convert" =>
                        meta' = [sample_rate |-> m.sample_rate, bit_rate |-> m.bit_rate]
                   /\ pc' = "loop" => m.sample_rate = None
      ]_vars

\* The probe of a file gave nothing, the file failed with the "Skipped"
\* warning, and the worker is at the head of the loop again.
C10_Witness ==
    /\ pc = "loop"
    /\ idx > 0
    /\ Len(ProbeCalls) = 1
    /\ meta = NoMeta
    /\ outcome[idx] = "Failed"
    /\ Len(NoticesOf(idx)) = 1
    /\ NoticesOf(idx)[1].title = "Skipped"

---------------------------------------------------------------------------
(* C11 *)

\* C11 as stated: whenever the inspector gives no sample rate, the probe
\* invokes the encoder in inspection mode to read the rates from its text.
C11_EncoderFallback ==
    (Len(ProbeCalls) = 1 /\ pc # "probe_wait" /\ meta.sample_rate = None) =>
        \E k \in 1..Len(procLog) :
            procLog[k].tool = "ffmpeg" /\ procLog[k].tier = "inspect"

\* C11 amended: the probe is one invocation of the inspector and nothing
\* else; whenever that invocation fails to start, returns a non-zero status
\* or yields no parseable sample rate, the probe returns without a sample
\* rate and without having invoked the encoder.
C11_NoEncoderFallback ==
    [][ (pc \in {"probe", "probe_wait"} /\ pc' \notin {"probe", "probe_wait"}) =>
          /\ Len(ProbeCalls') = 1
          /\ EncoderCalls' = <<>>
          /\ \A k \in 1..Len(procLog') : procLog'[k].tier # "inspect"
          /\ pc = "probe" => (meta' = NoMeta /\ pc' = "loop")
          /\ (pc = "probe_wait" /\ Reported(inflight.run, "sample_rate") = None) =>
               (meta' = NoMeta /\ pc' = "loop")
      ]_vars

\* The worker ended a batch of one file whose probe gave nothing: the only
\* process run for it was the inspector.
C11_Witness ==
    /\ thread = "dead"
    /\ Total = 1
    /\ outcome[1] = "Failed"
    /\ Len(procLog) = 1
    /\ procLog[1].tool = "ffprobe"
    /\ meta = NoMeta

---------------------------------------------------------------------------
(* C12 *)

---------------------------------------------------------------------------
(* C13 *)

\* C13: pitch-shift filter chain.  For a source whose probed sample rate is
\* SR_orig, the chain of every encoder invocation has exactly two stages: the
\* first reinterprets the stream at SR_orig * 432/440, the second resamples
\* to the fixed target of 48000 Hz.
C13_ChainFromSourceRate ==
    \A k \in 1..Len(EncoderCalls) :
        EncoderCalls[k].cmd.chain =
            << Filter("asetrate", meta.sample_rate.v, 432, 440),
               Filter("aresample", target_sample_rate, 1, 1) >>

---------------------------------------------------------------------------
(* C14 *)

\* The argument list holds the argument t.
Has(options, t) == \E k \in 1..Len(options) : options[k] = t

\* The supported extensions in the spellings that occur.
Spellings ==
    SUPPORTED_EXTS \cup {".WAV", ".FLAC", ".MP3", ".M4A", ".AAC", ".OGG", ".OPUS",
                         ".WMA", ".Wma"}

\* The generic high-bitrate lossy default.
GenericDefault == <<Tok("-c:a"), Tok("aac"), Tok("-b:a"), Kbps(320)>>

\* C14: codec policy lookup.  For every supported extension, in any letter
\* case, and for both tiers, _codec_for_ext returns a non-empty list that
\* holds "-c:a"; an extension without a row (.ogg, .opus) gets the generic
\* lossy default; the lossy HQ rows hold "-b:a", with 512k for .aac; and the
\* codec arguments of every encoder invocation are such a list.
C14_CodecLookup ==
    /\ \A e \in Spellings, safe \in BOOLEAN :
          /\ Lower(e) \in SUPPORTED_EXTS
          /\ codec_for_ext(e, safe) # <<>>
          /\ Has(codec_for_ext(e, safe), Tok("-c:a"))
          /\ Lower(e) \in {".ogg", ".opus"} => codec_for_ext(e, safe) = GenericDefault
          /\ Lower(e) \in {".mp3", ".m4a", ".aac", ".wma"} /\ ~safe =>
                Has(codec_for_ext(e, safe), Tok("-b:a"))
          /\ Lower(e) = ".aac" /\ ~safe =>
                \E k \in 2..Len(codec_for_ext(e, safe)) :
                    /\ codec_for_ext(e, safe)[k - 1] = Tok("-b:a")
                    /\ codec_for_ext(e, safe)[k] = Kbps(512)
    /\ \A k \in 1..Len(EncoderCalls) :
          /\ EncoderCalls[k].cmd.codec # <<>>
          /\ Has(EncoderCalls[k].cmd.codec, Tok("-c:a"))

\* The encoder has been run with the HQ arguments on the file g.AAC, whose
\* stream carries no bit rate: the arguments are the row of .aac.
C14_Witness ==
    /\ idx = 1
    /\ files[1].ext = ".AAC"
    /\ Len(EncoderCalls) >= 1
    /\ EncoderCalls[1].tier = "HQ"
    /\ Has(EncoderCalls[1].cmd.codec, Kbps(512))

---------------------------------------------------------------------------
(* C15 *)

\* The table's arguments for the tier of an encoder invocation.
TableArgs(call) == codec_for_ext(call.cmd.dst[Len(call.cmd.dst)], call.tier = "Safe")

\* The encoder invocations for a lossy destination whose table arguments
\* carry a bit rate.
LossyCalls ==
    SelectSeq(EncoderCalls,
              LAMBDA c : /\ ~Lossless(Lower(c.cmd.dst[Len(c.cmd.dst)]))
                         /\ Index(TableArgs(c), "-b:a") > 0)

\* The nominal bit rate T of the tier and the bit rate argument passed.
Nominal(call) == TableArgs(call)[Index(TableArgs(call), "-b:a") + 1]

Passed(call) == call.cmd.codec[Index(TableArgs(call), "-b:a") + 1]

\* B in whole kbps, rounded to the nearest.
RoundedKbps(bps) == Kbps((bps + 500) \div 1000)

\* C15 as stated: with a probed bit rate B below the nominal bit rate T the
\* bit rate argument is B rounded to whole kbps; with B at or above T, or
\* absent, the arguments are the table's.
C15_RoundedToKbps ==
    \A k \in 1..Len(LossyCalls) :
        LET c == LossyCalls[k]
            B == meta.bit_rate
        IN  IF B # None /\ B.v < TargetBps(Nominal(c))
            THEN Passed(c) = RoundedKbps(B.v)
            ELSE c.cmd.codec = TableArgs(c)

\* C15, amended: with a probed bit rate B below the nominal bit rate T the
\* bit rate argument is B itself, written in kbps when B is a multiple of
\* 1000 and in bps otherwise, and no other argument differs from the
\* table's; with B at or above T, or absent, the arguments are the table's;
\* the bit rate passed exceeds neither T nor a known B.
C15_ExactBitrate ==
    \A k \in 1..Len(LossyCalls) :
        LET c == LossyCalls[k]
            B == meta.bit_rate
            T == TargetBps(Nominal(c))
            j == Index(TableArgs(c), "-b:a") + 1
        IN  /\ Len(c.cmd.codec) = Len(TableArgs(c))
            /\ \A l \in 1..Len(c.cmd.codec) : l # j => c.cmd.codec[l] = TableArgs(c)[l]
            /\ IF B # None /\ B.v < T
               THEN /\ TargetBps(Passed(c)) = B.v
                    /\ Passed(c).s = "k" <=> B.v % 1000 = 0
                    /\ Passed(c).s = "digits" <=> B.v % 1000 # 0
               ELSE Passed(c) = Nominal(c)
            /\ TargetBps(Passed(c)) <= T
            /\ B # None => TargetBps(Passed(c)) <= B.v

\* The encoder has been run on c.mp3, probed at 128500 bps, with the bit
\* rate argument 128500.
C15_Witness ==
    /\ Len(LossyCalls) >= 1
    /\ meta.bit_rate = Some(128500)
    /\ Passed(LossyCalls[1]) = RawBps(128500)
    /\ Nominal(LossyCalls[1]) = Kbps(320)

---------------------------------------------------------------------------
(* C16 *)

\* The extension of the destination of an encoder invocation, in lower case.
DstExt(call) == Lower(call.cmd.dst[Len(call.cmd.dst)])

\* C16: lossless exemption.  For a destination extension .flac or .wav the
\* codec arguments of the HQ attempt are the HQ table's row and those of the
\* Safe attempt are the Safe table's row, whatever bit rate was probed.
C16_LosslessUntouched ==
    \A k \in 1..Len(EncoderCalls) :
        LET c == EncoderCalls[k]
        IN  DstExt(c) \in {".flac", ".wav"} =>
                c.cmd.codec = IF c.tier = "HQ" THEN HQ_CODEC[DstExt(c)]
                              ELSE SAFE_CODEC[DstExt(c)]

\* Both attempts have been made on h.flac, probed at 900000 bps.
C16_Witness ==
    /\ Len(EncoderCalls) = 2
    /\ DstExt(EncoderCalls[1]) = ".flac"
    /\ meta.bit_rate = Some(900000)
    /\ EncoderCalls[1].cmd.codec = HQ_CODEC[".flac"]
    /\ EncoderCalls[2].cmd.codec = SAFE_CODEC[".flac"]

---------------------------------------------------------------------------
(* C17 *)

\* The destination the naming rule gives a source: the destination base,
\* the source's relative directory, <stem>_432 and the extension, which is
\* .mp3 for a .wma source in any letter case.
Mirrored(p) ==
    << p.dir, p.stem, "_432",
       IF p.ext \in {".wma", ".WMA", ".Wma"} THEN ".mp3" ELSE p.ext >>

\* C17: destination naming.  Every encoder invocation for a discovered
\* source names the mirrored destination, the skip-existing check looks at
\* it, and a step of the worker changes the content of no other path.
C17_MirroredName ==
    /\ [](\A k \in 1..Len(EncoderCalls) :
             EncoderCalls[k].cmd.dst = Mirrored(files[EncoderCalls[k].of]))
    /\ [][\A d \in DstSet :
             fs'[d] # fs[d] => idx \in 1..Len(files) /\ d = Mirrored(files[idx])]_vars

\* sub/track.wma has been converted to sub/track_432.mp3.
C17_Witness ==
    /\ idx = 1
    /\ files[1].dir = "sub"
    /\ files[1].stem = "track"
    /\ files[1].ext = ".wma"
    /\ outcome[1] = "Success"
    /\ EncoderCalls[1].cmd.dst = <<"sub", "track", "_432", ".mp3">>
    /\ fs[<<"sub", "track", "_432", ".mp3">>] = "complete"

---------------------------------------------------------------------------
(* C18 *)

\* --ffmpeg reaches _resolve_ffmpeg (not with --test) and names something.
ArgGiven == ~toolenv.test /\ toolenv.arg_kind # "none"

\* Each tier yields both executables.
ArgYieldsBoth ==
    /\ ArgGiven
    /\ toolenv.arg_kind \in {"file", "dir"}
    /\ toolenv.arg.ffmpeg # "absent"
    /\ toolenv.arg.ffprobe # "absent"

PathYieldsBoth == toolenv.path.ffmpeg = "exec" /\ toolenv.path.ffprobe = "exec"

BundledYieldsBoth ==
    \E loc \in {"script", "sub_bin", "sub_root"} :
        toolenv[loc].ffmpeg # "absent" /\ toolenv[loc].ffprobe # "absent"

\* The first tier, in the order argument, search path, bundled layout, that
\* yields both executables.
FirstTier ==
    IF ArgYieldsBoth THEN "arg"
    ELSE IF PathYieldsBoth THEN "path"
    ELSE IF BundledYieldsBoth THEN "bundled"
    ELSE "none"

\* The tier a path comes from.
TierOf(path) ==
    IF path.loc \in {"script", "sub_bin", "sub_root"} THEN "bundled"
    ELSE IF path.loc = "name" THEN "none"
    ELSE path.loc

\* The tiers that are looked at when the tier t is the first to yield both.
UpTo(t) ==
    (IF ArgGiven THEN <<"arg">> ELSE <<>>)
        \o (IF t = "arg" THEN <<>>
            ELSE IF t = "path" THEN <<"path">>
            ELSE <<"path", "bundled">>)

\* C18: toolchain resolution order.  Once _resolve_ffmpeg has run, the tiers
\* looked at are those up to the first that yields both executables, in the
\* order argument, search path, bundled layout; both paths come from that
\* tier and from the same location; a tier that yields only one executable
\* gives neither path.
C18_ResolutionOrder ==
    app # "starting" =>
        /\ resolution.consulted = UpTo(FirstTier)
        /\ FirstTier # "none" =>
              /\ TierOf(FFMPEG) = FirstTier
              /\ TierOf(FFPROBE) = FirstTier
              /\ FFMPEG.loc = FFPROBE.loc
        /\ app = "gui" => FirstTier # "none" /\ FFMPEG.loc = FFPROBE.loc
        /\ resolution.source = "argument" <=> FirstTier = "arg"
        /\ resolution.source = "System PATH" <=> FirstTier = "path"

\* --ffmpeg names a directory that holds the encoder alone and the search
\* path holds both: both paths come from the search path, and the bundled
\* layout was not looked at.
C18_Witness ==
    /\ app = "gui"
    /\ toolenv.arg_kind = "dir"
    /\ toolenv.arg = Pair("exec", "absent")
    /\ toolenv.script = Pair("exec", "exec")
    /\ FFMPEG = ToolPath("path", "ffmpeg")
    /\ FFPROBE = ToolPath("path", "ffprobe")
    /\ resolution.consulted = <<"arg", "path">>

---------------------------------------------------------------------------
(* C19 *)

\* No source file has been discovered, probed or converted.
NothingTouched ==
    /\ thread = "none"
    /\ workers = 0
    /\ files = <<>>
    /\ procLog = <<>>
    /\ \A d \in DstSet : fs[d] = "missing"

\* Both paths name executable files.
ToolchainExecutable ==
    /\ FFMPEG.loc # "name"
    /\ FFPROBE.loc # "name"
    /\ toolenv[FFMPEG.loc].ffmpeg = "exec"
    /\ toolenv[FFPROBE.loc].ffprobe = "exec"

\* A batch has been started in this run.
BatchStarted == thread # "none" \/ procLog # <<>> \/ files # <<>>

\* C19 as stated: when the final verification finds the encoder or the
\* inspector not executable, the run ends with a failure status and a
\* diagnostic before any file is discovered, probed or converted; no batch
\* starts in a run whose toolchain was not verified.
C19_FatalFailure ==
    /\ app # "starting" /\ resolution.failed # "none" =>
          /\ app = "exited"
          /\ exit_status = 1
          /\ resolution.diagnostic # "none"
          /\ NothingTouched
    /\ BatchStarted => resolution.failed = "none" /\ ToolchainExecutable

\* C19, amended: when the final verification fails the run ends, with a
\* diagnostic, before any file is discovered, probed or converted; without
\* --test its status is 1 and the diagnostic is shown (an error box, or a
\* line on stderr without Tkinter); with --test the failure is logged, the
\* self-tests still run and the status is theirs.  No batch starts in a run
\* whose toolchain was not verified.
C19_FatalUnlessTest ==
    /\ app # "starting" /\ resolution.failed # "none" =>
          /\ app = "exited"
          /\ NothingTouched
          /\ IF toolenv.test
             THEN resolution.diagnostic = "log" /\ exit_status \in {0, 1}
             ELSE /\ exit_status = 1
                  /\ resolution.diagnostic = IF toolenv.tk THEN "showerror" ELSE "stderr"
    /\ app = "exited" => NothingTouched
    /\ BatchStarted =>
          /\ app = "gui"
          /\ ~toolenv.test
          /\ resolution.failed = "none"
          /\ ToolchainExecutable

\* --ffmpeg names a directory whose ffprobe is not executable while the
\* search path holds both tools: the run has ended with status 1.
C19_Witness ==
    /\ app = "exited"
    /\ ~toolenv.test
    /\ toolenv.arg_kind = "dir"
    /\ toolenv.arg = Pair("exec", "file")
    /\ toolenv.path = Pair("exec", "exec")
    /\ resolution.failed = "ffprobe"
    /\ resolution.diagnostic = "showerror"
    /\ exit_status = 1
    /\ NothingTouched

---------------------------------------------------------------------------
(* C20 *)

\* The worker waits for an external process.
Waiting == pc \in {"probe_wait", "hq_wait", "safe_wait"}

\* C20: single worker.  At most one worker is alive; an external process is
\* in flight only while the one worker waits for it, and that worker starts
\* no other; and no step taken while a worker is alive starts a worker,
\* begins a batch again or resets what the batch has recorded.
C20_SingleWorker ==
    /\ [](/\ workers <= 1
          /\ workers = IF thread = "alive" THEN 1 ELSE 0
          /\ inflight.tool # "none" <=> thread = "alive" /\ Waiting)
    /\ [][thread = "alive" =>
             /\ workers' <= workers
             /\ pc # "discover" => pc' # "discover"
             /\ idx' >= idx
             /\ Len(files') >= Len(files)
             /\ Len(ticks') >= Len(ticks)
             /\ Len(notices') >= Len(notices)
             /\ prevComplete' = prevComplete
             /\ inflight.tool # "none" /\ inflight'.tool # "none" => inflight' = inflight]_vars

\* The worker of a batch waits for the encoder; the Start button is
\* disabled and a Start request would get the "Busy" answer.
C20_Witness ==
    /\ thread = "alive"
    /\ Busy(thread)
    /\ workers = 1
    /\ btn = "disabled"
    /\ inflight.tool = "ffmpeg"
    /\ pc = "safe_wait"
    /\ idx = 2

---------------------------------------------------------------------------
(* C21 *)

\* C21: ordering.  Within a batch the files are handled in the order of
\* discovery: the worker goes from file i to file i+1 only, when file i has
\* its outcome and no external process is in flight; every external process
\* of the task log belongs to the current file; and when the worker has
\* ended every discovered file has been handled, once.
C21_InOrderExactlyOnce ==
    /\ [](/\ idx <= Len(files)
          /\ \A k \in 1..Len(procLog) : procLog[k].of = idx
          /\ \A i \in 1..Len(outcome) : outcome[i] # "none" => i <= idx
          /\ thread = "dead" => \A i \in 1..Len(files) : outcome[i] # "none")
    /\ [][thread = "alive" /\ idx' # idx =>
             /\ idx' = idx + 1
             /\ inflight.tool = "none"
             /\ idx > 0 => outcome[idx] # "none"]_vars

---------------------------------------------------------------------------
(* C22 *)

\* The step is one of the worker thread: the worker is running and moves
\* on in its code or to its next file.
WorkerStep == pc # "idle" /\ (pc' # pc \/ idx' # idx)

\* C22: shared state discipline.  The value and the maximum of the progress
\* bar are never written by a step of the worker thread: the worker only
\* hands updates to the Tk thread, which writes them.
C22_NoDirectWrite ==
    [][WorkerStep => barValue' = barValue /\ barMaximum' = barMaximum]_vars

---------------------------------------------------------------------------
(* C23 *)

\* The entries of a folder that discovery has to return: the regular files,
\* at the top level or (with the flag) anywhere below it, whose extension is
\* a supported one in some letter case.
Wanted(dir, recursive) ==
    { p \in dir : /\ p.file
                  /\ recursive \/ p.dir = ""
                  /\ p.ext \in Spellings }

\* The elements of a sequence, and whether none occurs twice.
Range(seq) == { seq[k] : k \in 1..Len(seq) }

NoRepeats(seq) == \A k, l \in 1..Len(seq) : seq[k] = seq[l] => k = l

\* C23: file discovery.  What the worker got from find_audio_files is
\* exactly the wanted entries of its folder, each once; and when the worker
\* is about to call it, the same is true of find_audio_files on every
\* folder of up to MaxFiles entries, with and without the flag.
C23_Discovery ==
    /\ thread # "none" /\ pc # "discover" =>
          Range(files) = Wanted(folder, rec) /\ NoRepeats(files)
    /\ pc = "discover" =>
          \A d \in SUBSET SourceSet, r \in BOOLEAN :
              Cardinality(d) <= MaxFiles =>
                  /\ Range(find_audio_files(d, r)) = Wanted(d, r)
                  /\ NoRepeats(find_audio_files(d, r))

\* Discovery without the flag returned d.MP3 from its folder.
C23_Witness ==
    /\ thread = "alive"
    /\ pc = "loop"
    /\ ~rec
    /\ files = << Source("", "d", ".MP3", 44100, 320000) >>

---------------------------------------------------------------------------
(* C24 *)

\* Every character of the text is whitespace (also: the text is empty).
Blank(t) == \A k \in 1..Len(t) : t[k] \in Whitespace

\* The text is blank but for the one character c.
BlankBut(t, c) ==
    \E k \in 1..Len(t) : t[k] = c /\ \A l \in 1..Len(t) : l # k => t[l] \in Whitespace

\* A name on one line, without whitespace at its ends and not itself
\* written in braces.
PlainName(t) ==
    /\ t # <<>>
    /\ t[1] \notin Whitespace
    /\ t[Len(t)] \notin Whitespace
    /\ \A k \in 1..Len(t) : t[k] # "\n"
    /\ ~(Len(t) > 1 /\ t[1] = "{" /\ t[Len(t)] = "}")

\* The text is its part from i to j, optionally in one pair of braces,
\* surrounded by whitespace.
Names(data, i, j) ==
    LET pre == SubSeq(data, 1, i - 1)
        post == SubSeq(data, j + 1, Len(data))
    IN  \/ Blank(pre) /\ Blank(post)
        \/ BlankBut(pre, "{") /\ BlankBut(post, "}")

\* The text is a pair of braces with nothing or whitespace inside,
\* surrounded by whitespace.
BracesOnly(data) ==
    \E i \in 1..Len(data), j \in 1..Len(data) :
        /\ i < j
        /\ data[i] = "{"
        /\ data[j] = "}"
        /\ \A k \in 1..Len(data) : k \notin {i, j} => data[k] \in Whitespace

\* C24: drop-data parsing.  Once the drop has been handled:
\* _parse_drop_data returned no path for a text that is empty, blank or only
\* a pair of braces; for a text naming an existing path, optionally in one
\* pair of braces and surrounded by whitespace, it returned that path
\* without braces and whitespace; for a name that does not exist it
\* returned no path.
C24_DropParsing ==
    dropped.done =>
        /\ Blank(dropdata) \/ BracesOnly(dropdata) => dropped.parsed = NoPath
        /\ \A i \in 1..Len(dropdata), j \in 1..Len(dropdata) :
              LET name == SubSeq(dropdata, i, j)
              IN  i <= j /\ PlainName(name) /\ Names(dropdata, i, j) =>
                      dropped.parsed = IF name \in ExistingDirs \cup ExistingFiles
                                       THEN APath(name) ELSE NoPath

\* The text " {a}" has been dropped and the folder a is the source.
C24_Witness ==
    /\ dropped.done
    /\ dropdata = <<" ", "{", "a", "}">>
    /\ dropped.parsed = APath(<<"a">>)
    /\ src = APath(<<"a">>)

---------------------------------------------------------------------------
(* C26 *)

---------------------------------------------------------------------------
(* C27 *)

\* The positions of the lines of raw that no ignore pattern matches.
Meaningful(raw) == { i \in 1..Len(raw) : ~IgnoreLine(raw[i]) }

\* The k-th of these positions.
Kth(raw, k) ==
    CHOOSE i \in Meaningful(raw) :
        Cardinality({ m \in Meaningful(raw) : m <= i }) = k

\* kept is what the claim asks for of raw: the lines matching no ignore
\* pattern, in their order, cut to the last 15; the placeholder when there
\* is none.
CleanedAs(raw, kept) ==
    LET n == Cardinality(Meaningful(raw))
        first == IF n > KeepLines THEN n - KeepLines ELSE 0
    IN  IF n = 0 THEN kept = Placeholder
        ELSE /\ Len(kept) = n - first
             /\ \A j \in 1..Len(kept) : kept[j] = raw[Kth(raw, first + j)]

\* C27: diagnostic cleaning.  The text kept of a failed HQ attempt, and the
\* two texts in the message of a failed task, are the lines of the encoder's
\* diagnostic output that match no ignore pattern, in their original order,
\* the last 15 of them at most, and the placeholder when no line survives.
C27_Cleaned ==
    /\ pc \in {"safe", "safe_wait"} =>
          CleanedAs(attempts[1].stderr.lines, hq_stderr_cleaned)
    /\ raised.kind = "CalledProcessError" =>
          \E k \in 2..Len(raised.stderr) :
             /\ raised.stderr[1] = "HQ error:"
             /\ raised.stderr[k] = "Safe error:"
             /\ CleanedAs(attempts[1].stderr.lines, SubSeq(raised.stderr, 2, k - 1))
             /\ CleanedAs(attempts[2].stderr.lines,
                          SubSeq(raised.stderr, k + 1, Len(raised.stderr)))

\* The HQ attempt on k.ogg printed the long text, of which the 15 lines from
\* "Stream mapping:" to "Exiting" are kept; the Safe attempt printed
\* only ignored lines.
C27_Witness ==
    /\ raised.kind = "CalledProcessError"
    /\ attempts[1].stderr.lines = LongLog
    /\ Len(hq_stderr_cleaned) = KeepLines
    /\ hq_stderr_cleaned[1] = "Stream mapping:"
    /\ hq_stderr_cleaned[KeepLines] = "Exiting"
    /\ StderrCleaned(attempts[2].stderr) = Placeholder

---------------------------------------------------------------------------
(* C28 *)

\* A command line without its codec arguments.
WithoutCodec(cmd) == [cmd EXCEPT !.codec = <<>>]

\* C28: the HQ and the Safe invocation of the same task differ only in
\* their codec arguments: both carry the overwrite flag, the task's input,
\* the mapping of the audio and the video stream with the video copied, the
\* same chain and the same destination.
C28_SameButCodec ==
    /\ \A k \in 1..Len(EncoderCalls) :
          LET c == EncoderCalls[k].cmd
          IN  /\ c.overwrite
              /\ c.input = SrcPath(files[EncoderCalls[k].of])
              /\ c.maps = <<"0:a?", "0:v?">>
              /\ c.video = "copy"
    /\ \A k, l \in 1..Len(EncoderCalls) :
          EncoderCalls[k].of = EncoderCalls[l].of =>
             WithoutCodec(EncoderCalls[k].cmd) = WithoutCodec(EncoderCalls[l].cmd)

\* sub/track.wma has been tried with libmp3lame -q:a 0 and then with the
\* Safe arguments, both from sub/track.wma to sub/track_432.mp3.
C28_Witness ==
    /\ Len(EncoderCalls) = 2
    /\ EncoderCalls[1].tier = "HQ"
    /\ EncoderCalls[2].tier = "Safe"
    /\ EncoderCalls[1].cmd.codec # EncoderCalls[2].cmd.codec
    /\ EncoderCalls[2].cmd.input = <<"sub", "track", ".wma">>
    /\ EncoderCalls[2].cmd.dst = <<"sub", "track", "_432", ".mp3">>
    /\ EncoderCalls[2].cmd.chain = EncoderCalls[1].cmd.chain

---------------------------------------------------------------------------
(* C29 *)

\* C29: destination uniqueness.  No two distinct files of the discovered
\* list are assigned the same destination path.
C29_DistinctDestinations ==
    \A i, j \in 1..Len(files) :
        i # j => DstPath(files[i]) # DstPath(files[j])

---------------------------------------------------------------------------
(* C30 *)

\* A batch has ended: the worker is terminated, the Start button is enabled
\* and the progress bar is back at 0.
BatchEnded == thread = "dead" /\ btn = "normal" /\ barValue = 0 /\ ~pollArmed

\* C30: worker and Start-button lifecycle.  The Start button is disabled
\* whenever a worker is alive, and every started batch eventually ends with
\* the worker terminated, the button enabled and the bar at 0.
C30_Lifecycle ==
    /\ [](thread = "alive" => btn = "disabled")
    /\ (thread = "alive") ~> BatchEnded

\* A batch that an unexpected exception ended, after _poll has run.
C30_Witness ==
    /\ BatchEnded
    /\ pollOutcome = "errors"
    /\ \E k \in 1..Len(notices) : notices[k].title = "Critical Worker Error"

---------------------------------------------------------------------------
(* C25 *)

\* Some file of the batch has not been handled.
Unfinished == \/ Len(outcome) < Len(files)
              \/ \E i \in 1..Len(outcome) : outcome[i] = "none"

\* The worker is in the middle of a file.
Handling ==
    /\ thread = "alive"
    /\ pc \in {"check", "probe", "probe_wait", "convert", "hq_wait", "safe",
               "safe_wait"}

\* C25: cancellation only between files.  Closing the window while a worker
\* is alive (the signal the test of lines 678-679 is written for) does not
\* end the worker in the middle of a file: the worker goes on to the top of
\* the loop, and a worker that ended with files left unhandled has flagged
\* the batch as not completed.
C25_CancelBetweenFiles ==
    /\ [][Handling /\ app' = "closed" =>
             thread' = "alive" /\ pc' = pc /\ inflight' = inflight]_vars
    /\ [](thread \notin {"none", "alive"} /\ Unfinished => error_occurred_worker)

---------------------------------------------------------------------------
(* C31 *)

\* C31: completion notice under interleaving.  Once _poll has observed the
\* end of a worker that handled N > 0 files with no failure and no error
\* flagged, it has read the bar at its maximum N and taken the branch that
\* shows 'Conversion complete', whatever the order in which the Tk loop ran
\* the worker's progress callbacks and the timer of _poll.
C31_CompleteNotice ==
    (/\ pollOutcome # "pending"
     /\ thread = "dead"
     /\ Total > 0
     /\ AllHandled
     /\ FailedFiles = {}
     /\ ~error_occurred_worker)
    => /\ pollOutcome = "complete"
       /\ barMaximum = Total

---------------------------------------------------------------------------
(* C32 *)

\* The attempt ended because the encoder could not be started.
LaunchFailed(a) ==
    /\ a.returncode = ENOENT
    /\ a.stderr.captured
    /\ a.stderr.lines = <<"Executable not found">>

\* Both attempts on the current file ended that way.
NeitherStarted ==
    /\ Len(attempts) = 2
    /\ LaunchFailed(attempts[1])
    /\ LaunchFailed(attempts[2])

\* C32: a launch failure is an ordinary failed attempt.  No exception other
\* than the CalledProcessError of a task failed on both tiers comes out of
\* an encoder invocation; an HQ attempt that could not be started has a
\* non-zero status and is followed by the Safe attempt; when neither could
\* be started the task is a per-file failure whose message carries both
\* diagnostics, and the worker goes on with the next file.
C32_LaunchFailure ==
    /\ [](/\ raised.kind \notin {"none", "CalledProcessError"} => EncoderCalls = <<>>
          /\ (Len(attempts) >= 1 /\ LaunchFailed(attempts[1])) =>
                /\ attempts[1].tier = "HQ"
                /\ attempts[1].returncode # 0
                /\ pc \in {"safe", "safe_wait"} \/ Len(attempts) = 2
          /\ NeitherStarted =>
                /\ attempts[2].tier = "Safe"
                /\ outcome[idx] = "Failed"
                /\ raised.kind = "CalledProcessError"
                /\ raised.stderr =
                      final_err_message(<<"Executable not found">>,
                                        <<"Executable not found">>)
                /\ \E k \in 1..Len(notices) :
                      /\ notices[k].of = idx
                      /\ notices[k].title = "Conversion Error"
                /\ pc \in {"loop", "after", "idle"})
    /\ [][(NeitherStarted /\ pc = "loop" /\ idx < Total /\ pc' # pc) =>
             (idx' = idx + 1 /\ thread' = "alive")]_vars

\* Neither attempt on the first of two files could be started; the file is
\* failed and the worker is at the top of the loop for the second.
C32_Witness ==
    /\ NeitherStarted
    /\ idx = 1
    /\ Total = 2
    /\ outcome = <<"Failed", "none">>
    /\ pc = "loop"

---------------------------------------------------------------------------
(* C33 *)

\* The skip-existing check of the current file found, with the option
\* enabled, a destination that only this source writes and that holds part
\* of an output: what the attempts of an earlier batch, failed on both
\* tiers, left behind (destinations start missing, a run that succeeds
\* leaves a complete file, and no earlier file of this batch wrote it).
FoundLeftBehind ==
    /\ seen.checked
    /\ seen.keep
    /\ seen.content = "partial"
    /\ \A j \in 1..Total : j # idx => DstPath(files[j]) # DstPath(files[idx])

\* C33: a failed conversion is retried by a later run.  With skip-existing
\* enabled, a source is never skipped on account of a destination file that
\* its failed attempts left behind.
C33_FailedIsRetried ==
    FoundLeftBehind => outcome[idx] # "Skipped"

====
